---- MODULE Spec2Model ----
(***************************************************************************)
(* Model of the Bystro command-line client: the credential store           *)
(* (cli/auth.py), the job client (cli/cli.py) and the proteomics client    *)
(* (api/proteomics.py).                                                    *)
(*                                                                         *)
(* Python strings are TLA+ strings, so f-strings and "+" are \o, and the   *)
(* JSON texts written to disk and received from the server are parsed      *)
(* character by character.  Python's None is written "None" where a        *)
(* parameter is "str | None" (no modelled input is the literal string      *)
(* "None"); Python objects that are returned or sent are tagged records     *)
(* [t |-> <type>, v |-> <value>].                                          *)
(***************************************************************************)
EXTENDS Integers, Sequences, FiniteSets, TLC

(***************************************************************************)
(* Strings                                                                 *)
(***************************************************************************)
None == "None"

\* Python truthiness of a "str | None" value: None and "" are falsy.
\* a test for "is not None" where the code tests truthiness
IsNotNone(x) == x # None

Truthy(x) == x # None /\ x # ""

Ch(s, i) == SubSeq(s, i, i)

StartsWithAt(s, i, p) ==
    /\ i + Len(p) - 1 <= Len(s)
    /\ SubSeq(s, i, i + Len(p) - 1) = p

\* Python's "needle in hay" on strings.
StrContains(hay, needle) ==
    \E i \in 1..(Len(hay) - Len(needle) + 1) : StartsWithAt(hay, i, needle)

UpperChars == "ABCDEFGHIJKLMNOPQRSTUVWXYZ"
LowerChars == "abcdefghijklmnopqrstuvwxyz"

\* each upper-case letter's lower-case letter
LowerOf == [c \in {Ch(UpperChars, k) : k \in 1..Len(UpperChars)} |-> Ch(LowerChars, CHOOSE k \in 1..Len(UpperChars) : Ch(UpperChars, k) = c)]

LowerChar(c) == IF c \in DOMAIN LowerOf THEN LowerOf[c] ELSE c

RECURSIVE StrLowerFrom(_, _)
StrLowerFrom(s, i) ==
    IF i > Len(s) THEN "" ELSE LowerChar(Ch(s, i)) \o StrLowerFrom(s, i + 1)

\* str.lower()
StrLower(s) == StrLowerFrom(s, 1)

IsSpace(c) == c \in {" ", "\n", "\t", "\r"}

RECURSIVE LStripFrom(_, _)
LStripFrom(s, i) ==
    IF i <= Len(s) /\ IsSpace(Ch(s, i)) THEN LStripFrom(s, i + 1) ELSE i

RECURSIVE RStripFrom(_, _)
RStripFrom(s, j) ==
    IF j >= 1 /\ IsSpace(Ch(s, j)) THEN RStripFrom(s, j - 1) ELSE j

\* str.strip()
StrStrip(s) ==
    LET i == LStripFrom(s, 1)
        j == RStripFrom(s, Len(s))
    IN  IF i > j THEN "" ELSE SubSeq(s, i, j)

RECURSIVE StrJoin(_, _)
\* sep.join(parts)
StrJoin(sep, parts) ==
    IF Len(parts) = 0 THEN ""
    ELSE IF Len(parts) = 1 THEN parts[1]
    ELSE parts[1] \o sep \o StrJoin(sep, Tail(parts))

Digits == "0123456789"

\* str(n) of the integers the program formats: status codes and ports.
RECURSIVE IntStr(_)
IntStr(n) ==
    IF n < 10 THEN Ch(Digits, n + 1)
    ELSE IntStr(n \div 10) \o Ch(Digits, (n % 10) + 1)

(***************************************************************************)
(* JSON values, as the Python objects json/msgspec produce:                *)
(*   [t |-> "str", v |-> s]     [t |-> "int", v |-> n]                      *)
(*   [t |-> "bool", v |-> b]    [t |-> "None", v |-> None]                  *)
(*   [t |-> "float", v |-> <literal>]                                       *)
(*   [t |-> "list", v |-> <<values>>]                                       *)
(*   [t |-> "dict", v |-> <<<<key, value>>, ...>>]  (insertion order)       *)
(***************************************************************************)
PyStr(s) == [t |-> "str", v |-> s]
PyInt(n) == [t |-> "int", v |-> n]
PyBool(b) == [t |-> "bool", v |-> b]
PyFloat(lit) == [t |-> "float", v |-> lit]
PyNone == [t |-> "None", v |-> None]
PyList(xs) == [t |-> "list", v |-> xs]
PyDict(kvs) == [t |-> "dict", v |-> kvs]

\* an optional string parameter as a Python object
PyOptStr(x) == IF x = None THEN PyNone ELSE PyStr(x)

DictHas(d, k) == \E i \in 1..Len(d.v) : d.v[i][1] = k

\* d[k] for a key that is present
DictGet(d, k) == d.v[CHOOSE i \in 1..Len(d.v) : d.v[i][1] = k][2]

\* d.get(k)
DictGetOrNone(d, k) == IF DictHas(d, k) THEN DictGet(d, k) ELSE PyNone

\* d[k] = x : replaces in place, or appends
DictSet(d, k, x) ==
    IF DictHas(d, k)
    THEN PyDict([i \in 1..Len(d.v) |-> IF d.v[i][1] = k THEN <<k, x>> ELSE d.v[i]])
    ELSE PyDict(Append(d.v, <<k, x>>))

(***************************************************************************)
(* JSON encoding (msgspec.json.encode / json.dumps, compact form)          *)
(***************************************************************************)
EscapeChar(c) ==
    IF c = "\"" THEN "\\\""
    ELSE IF c = "\\" THEN "\\\\"
    ELSE IF c = "\n" THEN "\\n"
    ELSE c

RECURSIVE EscapeFrom(_, _)
EscapeFrom(s, i) ==
    IF i > Len(s) THEN "" ELSE EscapeChar(Ch(s, i)) \o EscapeFrom(s, i + 1)

JsonEncodeStr(s) == "\"" \o EscapeFrom(s, 1) \o "\""

RECURSIVE JsonText(_, _, _)
RECURSIVE JsonTextItems(_, _, _, _)
RECURSIVE JsonTextMembers(_, _, _, _)

JsonTextItems(xs, i, isep, ksep) ==
    IF i > Len(xs) THEN ""
    ELSE (IF i > 1 THEN isep ELSE "") \o JsonText(xs[i], isep, ksep)
         \o JsonTextItems(xs, i + 1, isep, ksep)

JsonTextMembers(kvs, i, isep, ksep) ==
    IF i > Len(kvs) THEN ""
    ELSE (IF i > 1 THEN isep ELSE "") \o JsonEncodeStr(kvs[i][1]) \o ksep
         \o JsonText(kvs[i][2], isep, ksep) \o JsonTextMembers(kvs, i + 1, isep, ksep)

\* a value as JSON text with the given item and key separators
JsonText(x, isep, ksep) ==
    CASE x.t = "str"   -> JsonEncodeStr(x.v)
      [] x.t = "int"   -> IntStr(x.v)
      [] x.t = "float" -> x.v
      [] x.t = "bool"  -> (IF x.v THEN "true" ELSE "false")
      [] x.t = "None"  -> "null"
      [] x.t = "list"  -> "[" \o JsonTextItems(x.v, 1, isep, ksep) \o "]"
      [] x.t = "dict"  -> "{" \o JsonTextMembers(x.v, 1, isep, ksep) \o "}"

\* msgspec.json.encode(x)
JsonEncode(x) == JsonText(x, ",", ":")

\* json.dumps(x)
JsonDumps(x) == JsonText(x, ", ", ": ")

(***************************************************************************)
(* JSON decoding (msgspec.json.decode / response.json())                   *)
(* A parse result is [ok, val, next]: next is the index after the value.   *)
(***************************************************************************)
ParseFail == [ok |-> FALSE, val |-> PyNone, next |-> 0]
ParseOk(x, n) == [ok |-> TRUE, val |-> x, next |-> n]

RECURSIVE SkipWs(_, _)
SkipWs(s, i) ==
    IF i <= Len(s) /\ IsSpace(Ch(s, i)) THEN SkipWs(s, i + 1) ELSE i

\* the body of a string literal, from the character after the opening quote
RECURSIVE ScanString(_, _, _)
ScanString(s, j, acc) ==
    IF j > Len(s) THEN ParseFail
    ELSE LET c == Ch(s, j) IN
         IF c = "\"" THEN ParseOk(PyStr(acc), j + 1)
         ELSE IF c = "\\" THEN
              IF j + 1 > Len(s) THEN ParseFail
              ELSE LET e == Ch(s, j + 1) IN
                   IF e = "\"" THEN ScanString(s, j + 2, acc \o "\"")
                   ELSE IF e = "\\" THEN ScanString(s, j + 2, acc \o "\\")
                   ELSE IF e = "n" THEN ScanString(s, j + 2, acc \o "\n")
                   ELSE ParseFail
         ELSE IF c = "\n" THEN ParseFail
         ELSE ScanString(s, j + 1, acc \o c)

\* each digit character's value
DigitOf == [c \in {Ch(Digits, k) : k \in 1..Len(Digits)} |-> (CHOOSE k \in 1..Len(Digits) : Ch(Digits, k) = c) - 1]

IsDigit(c) == c \in DOMAIN DigitOf
DigitVal(c) == DigitOf[c]

RECURSIVE ScanInt(_, _, _)
ScanInt(s, j, acc) ==
    IF j <= Len(s) /\ IsDigit(Ch(s, j))
    THEN ScanInt(s, j + 1, acc * 10 + DigitVal(Ch(s, j)))
    ELSE ParseOk(PyInt(acc), j)

RECURSIVE ParseValue(_, _)
RECURSIVE ParseElements(_, _, _)
RECURSIVE ParseMembers(_, _, _)

\* after "[" or ",": the remaining elements of an array
ParseElements(s, i, acc) ==
    LET AfterValue(r) ==
            IF ~r.ok THEN ParseFail
            ELSE LET j == SkipWs(s, r.next) IN
                 IF j > Len(s) THEN ParseFail
                 ELSE IF Ch(s, j) = "," THEN ParseElements(s, j + 1, Append(acc, r.val))
                 ELSE IF Ch(s, j) = "]" THEN ParseOk(PyList(Append(acc, r.val)), j + 1)
                 ELSE ParseFail
    IN  AfterValue(ParseValue(s, SkipWs(s, i)))

\* after "{" or ",": the remaining members of an object
ParseMembers(s, i, acc) ==
    LET AfterValue(key, r) ==
            IF ~r.ok THEN ParseFail
            ELSE LET j == SkipWs(s, r.next) IN
                 IF j > Len(s) THEN ParseFail
                 ELSE IF Ch(s, j) = "," THEN ParseMembers(s, j + 1, DictSet(acc, key.val.v, r.val))
                 ELSE IF Ch(s, j) = "}" THEN ParseOk(DictSet(acc, key.val.v, r.val), j + 1)
                 ELSE ParseFail
        AfterColon(key, c) ==
            IF c > Len(s) \/ Ch(s, c) # ":" THEN ParseFail
            ELSE AfterValue(key, ParseValue(s, SkipWs(s, c + 1)))
        AfterKey(key) ==
            IF ~key.ok THEN ParseFail ELSE AfterColon(key, SkipWs(s, key.next))
        AtKey(k) ==
            IF k > Len(s) \/ Ch(s, k) # "\"" THEN ParseFail
            ELSE AfterKey(ScanString(s, k + 1, ""))
    IN  AtKey(SkipWs(s, i))

ParseValue(s, i) ==
    LET AtChar(c, j) ==
            IF c = "\"" THEN ScanString(s, i + 1, "")
            ELSE IF c = "{" THEN
                 IF j <= Len(s) /\ Ch(s, j) = "}" THEN ParseOk(PyDict(<<>>), j + 1)
                 ELSE ParseMembers(s, i + 1, PyDict(<<>>))
            ELSE IF c = "[" THEN
                 IF j <= Len(s) /\ Ch(s, j) = "]" THEN ParseOk(PyList(<<>>), j + 1)
                 ELSE ParseElements(s, i + 1, <<>>)
            ELSE IF StartsWithAt(s, i, "true") THEN ParseOk(PyBool(TRUE), i + 4)
            ELSE IF StartsWithAt(s, i, "false") THEN ParseOk(PyBool(FALSE), i + 5)
            ELSE IF StartsWithAt(s, i, "null") THEN ParseOk(PyNone, i + 4)
            ELSE IF IsDigit(c) THEN ScanInt(s, i, 0)
            ELSE ParseFail
    IN  IF i > Len(s) THEN ParseFail ELSE AtChar(Ch(s, i), SkipWs(s, i + 1))

\* the whole text must be one JSON value
JsonDecode(s) ==
    LET AtEnd(r) == IF r.ok /\ SkipWs(s, r.next) > Len(s) THEN r ELSE ParseFail
    IN  AtEnd(ParseValue(s, SkipWs(s, 1)))

\* msgspec.json.format(text, indent=4) of a parsed value
RECURSIVE JsonIndent(_, _)
RECURSIVE JsonIndentItems(_, _, _)
RECURSIVE JsonIndentMembers(_, _, _)
RECURSIVE Spaces(_)
Spaces(n) == IF n = 0 THEN "" ELSE " " \o Spaces(n - 1)

JsonIndentItems(xs, i, level) ==
    IF i > Len(xs) THEN ""
    ELSE (IF i > 1 THEN "," ELSE "") \o "\n" \o Spaces(4 * level)
         \o JsonIndent(xs[i], level) \o JsonIndentItems(xs, i + 1, level)

JsonIndentMembers(kvs, i, level) ==
    IF i > Len(kvs) THEN ""
    ELSE (IF i > 1 THEN "," ELSE "") \o "\n" \o Spaces(4 * level)
         \o JsonEncodeStr(kvs[i][1]) \o ": " \o JsonIndent(kvs[i][2], level)
         \o JsonIndentMembers(kvs, i + 1, level)

JsonIndent(x, level) ==
    IF x.t = "list" /\ Len(x.v) > 0
    THEN "[" \o JsonIndentItems(x.v, 1, level + 1) \o "\n" \o Spaces(4 * level) \o "]"
    ELSE IF x.t = "dict" /\ Len(x.v) > 0
    THEN "{" \o JsonIndentMembers(x.v, 1, level + 1) \o "\n" \o Spaces(4 * level) \o "}"
    ELSE JsonEncode(x)

(***************************************************************************)
(* Outcomes of a call: a returned Python object or a raised exception.     *)
(***************************************************************************)
Return(x) == [kind |-> "return", exc |-> "", msg |-> "", value |-> x]
Raise(e, m) == [kind |-> "raise", exc |-> e, msg |-> m, value |-> PyNone]
NoOutcome == [kind |-> "none", exc |-> "", msg |-> "", value |-> PyNone]

\* the message of the decoding errors raised inside msgspec / json is not modelled
DecodeError == Raise("DecodeError", "")

(***************************************************************************)
(* HTTP: a request the client sends and the answer the server gives.       *)
(***************************************************************************)
Request(method, url, headers, data, files, json) == [method |-> method, url |-> url, headers |-> headers, data |-> data, files |-> files, json |-> json]

NoHeaders == PyDict(<<>>)

Answer(status, text) == [status_code |-> status, text |-> text]

\* The result of running an operation: the file system afterwards (ds the
\* existing directories, fl the content of each existing file), the requests
\* sent, what was written to stdout and stderr, and the outcome.
Result(ds, fl, sent, out, err, outcome) == [ds |-> ds, fl |-> fl, sent |-> sent, out |-> out, err |-> err, outcome |-> outcome]

(***************************************************************************)
(* Credential store (cli/auth.py)                                          *)
(***************************************************************************)
\* os.path.expanduser("~/.bystro") for the user the model runs as
DEFAULT_DIR == "/home/u/.bystro"
STATE_FILE == "bystro_authentication_token.json"

\* os.path.join(dir, name)
PathJoin(d, name) == d \o "/" \o name

CachedAuth(email, access_token, url) == [t |-> "CachedAuth", v |-> [email |-> email, access_token |-> access_token, url |-> url]]

\* mjson.encode(CachedAuth): the struct is renamed to camel case
EncodeCachedAuth(data) == JsonEncode(PyDict(<< <<"email", PyStr(data.v.email)>>, <<"accessToken", PyStr(data.v.access_token)>>, <<"url", PyStr(data.v.url)>> >>))

HasStr(d, k) == DictHas(d, k) /\ DictGet(d, k).t = "str"

\* mjson.decode(text, type=CachedAuth): [ok, val]
DecodeCachedAuth(text) ==
    LET Typed(r) ==
            IF r.ok /\ r.val.t = "dict" /\ HasStr(r.val, "email") /\ HasStr(r.val, "accessToken") /\ HasStr(r.val, "url")
            THEN [ok |-> TRUE, val |-> CachedAuth(DictGet(r.val, "email").v, DictGet(r.val, "accessToken").v, DictGet(r.val, "url").v)]
            ELSE [ok |-> FALSE, val |-> PyNone]
    IN  Typed(JsonDecode(text))

\* mjson.decode(text, type=LoginResponse) and type=SignupResponse: [ok, val]
DecodeTokenResponse(text) ==
    LET Typed(r) ==
            IF r.ok /\ r.val.t = "dict" /\ HasStr(r.val, "accessToken")
            THEN [ok |-> TRUE, val |-> DictGet(r.val, "accessToken").v]
            ELSE [ok |-> FALSE, val |-> ""]
    IN  Typed(JsonDecode(text))

\* the host without its port
_fq_host_no_port(host, port) == host

_fq_host(host, port) == host \o ":" \o IntStr(port)

FileExists(fl, path) == path \in DOMAIN fl

\* open(path, "a"): creates, keeps what is there
OpenForAppend(fl, path) == [p \in (DOMAIN fl) \cup {path} |-> IF p \in DOMAIN fl THEN fl[p] ELSE ""]

\* open(path, "w"): creates or truncates
OpenForWrite(fl, path) == [p \in (DOMAIN fl) \cup {path} |-> IF p = path THEN "" ELSE fl[p]]

\* the flush of a buffered f.write(text) through a descriptor whose position
\* is offset: the bytes land at that position, over what is there
WriteAt(fl, path, offset, text) == [fl EXCEPT ![path] = SubSeq(fl[path], 1, offset) \o text \o SubSeq(fl[path], offset + Len(text) + 1, Len(fl[path]))]

\* f.write(text)
WriteText(fl, path, text) == [fl EXCEPT ![path] = fl[path] \o text]

\* load_state: the outcome of the call
load_state(fl, bystro_credentials_dir) ==
    LET path == PathJoin(bystro_credentials_dir, STATE_FILE)
        Decoded(r) == IF r.ok THEN Return(r.val) ELSE DecodeError
    IN  IF FileExists(fl, path) THEN Decoded(DecodeCachedAuth(fl[path])) ELSE Return(PyNone)

\* a save_state that ignores its directory argument and writes to a fixed one
save_state_fixed_dir(ds, fl, data, bystro_credentials_dir, print_result) ==
    LET save_path == PathJoin("/home/u/.bystro", STATE_FILE)
    IN  Result(ds \cup {"/home/u/.bystro"}, [p \in (DOMAIN fl) \cup {save_path} |-> IF p = save_path THEN EncodeCachedAuth(data) ELSE fl[p]], <<>>, <<>>, <<>>, Return(PyNone))

save_state(ds, fl, data, bystro_credentials_dir, print_result) ==
    LET save_path == PathJoin(bystro_credentials_dir, STATE_FILE)
        Write(encoded_data) ==
            Result(IF bystro_credentials_dir \notin ds THEN ds \cup {bystro_credentials_dir} ELSE ds,
                   WriteText(OpenForWrite(fl, save_path), save_path, encoded_data),
                   <<>>,
                   IF print_result THEN << "\nSaved auth credentials to " \o save_path \o ":\n" \o JsonIndent(JsonDecode(encoded_data).val, 0) >> ELSE <<>>,
                   <<>>, Return(PyNone))
    IN  Write(EncodeCachedAuth(data))

(***************************************************************************)
(* Auth client (cli/auth.py)                                               *)
(***************************************************************************)
\* an error message that leaves out the response text
LoginFailedNoText(response) == Raise("RuntimeError", "Login failed with response status: " \o IntStr(response.status_code) \o ". Error: \n\n")

LoginFailed(response) == Raise("RuntimeError", "Login failed with response status: " \o IntStr(response.status_code) \o ". Error: \n" \o response.text \o "\n")

\* a signup that takes every 2xx status for success
signup_any_2xx(ds, fl, email, password, name, host, port, bystro_credentials_dir, print_result, response) ==
    LET fq_host == _fq_host(host, port)
        sent == << Request("PUT", fq_host \o "/api/user", NoHeaders, PyDict(<< <<"email", PyStr(email)>>, <<"name", PyStr(name)>>, <<"password", PyStr(password)>> >>), <<>>, PyNone) >>
        Saved(state, saved) == Result(saved.ds, saved.fl, sent, saved.out, <<>>, Return(state))
        Save(state) == Saved(state, save_state(ds, fl, state, bystro_credentials_dir, print_result))
        Decoded(res) == IF ~res.ok THEN Result(ds, fl, sent, <<>>, <<>>, DecodeError) ELSE Save(CachedAuth(email, res.val, fq_host))
    IN  IF response.status_code \notin 200..299 THEN Result(ds, fl, sent, <<>>, <<>>, LoginFailed(response))
        ELSE Decoded(DecodeTokenResponse(response.text))

signup(ds, fl, email, password, name, host, port, bystro_credentials_dir, print_result, response) ==
    LET p1 == IF print_result THEN << "\nSigning up for Bystro with email: " \o email \o ", name: " \o name >> ELSE <<>>
        fq_host == _fq_host(host, port)
        url == fq_host \o "/api/user"
        data == PyDict(<< <<"email", PyStr(email)>>, <<"name", PyStr(name)>>, <<"password", PyStr(password)>> >>)
        sent == << Request("PUT", url, NoHeaders, data, <<>>, PyNone) >>
        p2 == IF print_result THEN << "\nSignup & authentication successful. You may now use the Bystro API!\n" >> ELSE <<>>
        Saved(state, saved) == Result(saved.ds, saved.fl, sent, p1 \o saved.out \o p2, <<>>, Return(state))
        Save(state) == Saved(state, save_state(ds, fl, state, bystro_credentials_dir, print_result))
        Decoded(res) == IF ~res.ok THEN Result(ds, fl, sent, p1, <<>>, DecodeError) ELSE Save(CachedAuth(email, res.val, fq_host))
    IN  IF response.status_code # 200 THEN Result(ds, fl, sent, p1, <<>>, LoginFailed(response))
        ELSE Decoded(DecodeTokenResponse(response.text))

login(ds, fl, email, password, host, port, bystro_credentials_dir, print_result, response) ==
    LET fq_host == _fq_host(host, port)
        p1 == IF print_result THEN << "\nLogging into " \o fq_host \o " with email: " \o email \o "." >> ELSE <<>>
        url == fq_host \o "/api/user/auth/local"
        body == PyDict(<< <<"email", PyStr(email)>>, <<"password", PyStr(password)>> >>)
        sent == << Request("POST", url, NoHeaders, body, <<>>, PyNone) >>
        p2 == IF print_result THEN << "\nLogin successful. You may now use the Bystro API!\n" >> ELSE <<>>
        Saved(state, saved) == Result(saved.ds, saved.fl, sent, p1 \o saved.out \o p2, <<>>, Return(state))
        Save(state) == Saved(state, save_state(ds, fl, state, bystro_credentials_dir, print_result))
        Decoded(res) == IF ~res.ok THEN Result(ds, fl, sent, p1, <<>>, DecodeError) ELSE Save(CachedAuth(email, res.val, fq_host))
    IN  IF response.status_code # 200 THEN Result(ds, fl, sent, p1, <<>>, LoginFailed(response))
        ELSE Decoded(DecodeTokenResponse(response.text))

NotLoggedIn == Raise("ValueError", "\n\nYou are not logged in. Please login first.\n")

\* an authenticate without the "if not state" test: a missing credential file
\* surfaces as the attribute error of reading None.access_token
authenticate_unchecked(fl, bystro_credentials_dir) ==
    LET Loaded(state) ==
            IF state.kind = "raise" THEN [outcome |-> state, state |-> PyNone, header |-> NoHeaders]
            ELSE IF state.value.t = "None" THEN [outcome |-> Raise("AttributeError", "'NoneType' object has no attribute 'access_token'"), state |-> PyNone, header |-> NoHeaders]
            ELSE [outcome |-> Return(PyNone), state |-> state.value, header |-> PyDict(<< <<"Authorization", PyStr("Bearer " \o state.value.v.access_token)>> >>)]
    IN  Loaded(load_state(fl, bystro_credentials_dir))

\* authenticate: [outcome, state, header]; state and header are meaningful
\* when the outcome is a return
authenticate(fl, bystro_credentials_dir) ==
    LET Loaded(state) ==
            IF state.kind = "raise" THEN [outcome |-> state, state |-> PyNone, header |-> NoHeaders]
            ELSE IF state.value.t = "None" THEN [outcome |-> NotLoggedIn, state |-> PyNone, header |-> NoHeaders]
            ELSE [outcome |-> Return(PyNone), state |-> state.value, header |-> PyDict(<< <<"Authorization", PyStr("Bearer " \o state.value.v.access_token)>> >>)]
    IN  Loaded(load_state(fl, bystro_credentials_dir))

(***************************************************************************)
(* Job client (cli/cli.py)                                                 *)
(***************************************************************************)
\* a route map whose "public" route lost a path segment
JOB_TYPE_ROUTE_MAP_SHORT == << <<"all", "/list/all">>, <<"public", "/list/public">>, <<"shared", "/list/shared">>, <<"incomplete", "/list/incomplete">>, <<"completed", "/list/completed">>, <<"failed", "/list/failed">> >>

JOB_TYPE_ROUTE_MAP == << <<"all", "/list/all">>, <<"public", "/list/all/public">>, <<"shared", "/list/shared">>, <<"incomplete", "/list/incomplete">>, <<"completed", "/list/completed">>, <<"failed", "/list/failed">> >>

\* the routes of the map where its keys are meant
RouteValues == << "/list/all", "/list/all/public", "/list/shared", "/list/incomplete", "/list/completed", "/list/failed" >>

\* JOB_TYPE_ROUTE_MAP.keys(), in insertion order
RouteKeys == [i \in 1..Len(JOB_TYPE_ROUTE_MAP) |-> JOB_TYPE_ROUTE_MAP[i][1]]

\* a membership test against a list that misses the three newer types
IsOldRouteKey(job_type) == job_type \in {"all", "public", "shared"}

IsRouteKey(job_type) == \E i \in 1..Len(JOB_TYPE_ROUTE_MAP) : JOB_TYPE_ROUTE_MAP[i][1] = job_type

\* JOB_TYPE_ROUTE_MAP[job_type] for a key of the map
RouteOf(job_type) == JOB_TYPE_ROUTE_MAP[CHOOSE i \in 1..Len(JOB_TYPE_ROUTE_MAP) : JOB_TYPE_ROUTE_MAP[i][1] = job_type][2]

\* mjson.format(text, indent=4): [ok, val]
JsonFormat(text) ==
    LET Formatted(r) == IF r.ok THEN [ok |-> TRUE, val |-> JsonIndent(r.val, 0)] ELSE [ok |-> FALSE, val |-> ""]
    IN  Formatted(JsonDecode(text))

\* the shape msgspec accepts for a datetime field (date, "T", time)
IsDateTime(s) == Len(s) >= 19 /\ Ch(s, 5) = "-" /\ Ch(s, 8) = "-" /\ Ch(s, 11) = "T" /\ Ch(s, 14) = ":"

PyDateTime(s) == [t |-> "datetime", v |-> s]

IsJobBasic(x) == x.t = "dict" /\ HasStr(x, "_id") /\ HasStr(x, "name") /\ HasStr(x, "createdAt") /\ IsDateTime(DictGet(x, "createdAt").v)

JobBasicResponse(x) == [t |-> "JobBasicResponse", v |-> [_id |-> DictGet(x, "_id").v, name |-> DictGet(x, "name").v, createdAt |-> PyDateTime(DictGet(x, "createdAt").v)]]

\* mjson.decode(text, type=list[JobBasicResponse]): [ok, val]
DecodeJobList(text) ==
    LET Typed(r) ==
            IF r.ok /\ r.val.t = "list" /\ \A i \in 1..Len(r.val.v) : IsJobBasic(r.val.v[i])
            THEN [ok |-> TRUE, val |-> PyList([i \in 1..Len(r.val.v) |-> JobBasicResponse(r.val.v[i])])]
            ELSE [ok |-> FALSE, val |-> PyNone]
    IN  Typed(JsonDecode(text))

IsStrList(x) == x.t = "list" /\ \A i \in 1..Len(x.v) : x.v[i].t = "str"

IsUserProfile(x) ==
    /\ x.t = "dict"
    /\ HasStr(x, "_id") /\ HasStr(x, "name") /\ HasStr(x, "email") /\ HasStr(x, "role")
    /\ DictHas(x, "options") /\ DictGet(x, "options").t = "dict"
    /\ DictHas(x, "accounts") /\ IsStrList(DictGet(x, "accounts"))
    /\ HasStr(x, "lastLogin") /\ IsDateTime(DictGet(x, "lastLogin").v)

UserProfile(x) == [t |-> "UserProfile", v |-> [_id |-> DictGet(x, "_id").v, options |-> DictGet(x, "options"), name |-> DictGet(x, "name").v, email |-> DictGet(x, "email").v, accounts |-> DictGet(x, "accounts"), role |-> DictGet(x, "role").v, lastLogin |-> PyDateTime(DictGet(x, "lastLogin").v)]]

\* mjson.decode(text, type=UserProfile): [ok, val]
DecodeUserProfile(text) ==
    LET Typed(r) == IF r.ok /\ IsUserProfile(r.val) THEN [ok |-> TRUE, val |-> UserProfile(r.val)] ELSE [ok |-> FALSE, val |-> PyNone]
    IN  Typed(JsonDecode(text))

\* a single-job branch that returns the record as it came, "config" still a string
DecodeJobRaw(text) ==
    LET Job(r) == IF ~(r.ok /\ r.val.t = "dict") THEN DecodeError ELSE Return(r.val)
    IN  Job(JsonDecode(text))

\* the single-job branch of get_jobs: the outcome of decoding the job record
\* and then its "config" member
DecodeJob(text) ==
    LET Config(job, c) == IF ~c.ok THEN DecodeError ELSE Return(DictSet(job, "config", c.val))
        Job(r) ==
            IF ~(r.ok /\ r.val.t = "dict") THEN DecodeError
            ELSE IF ~DictHas(r.val, "config") THEN Raise("KeyError", "'config'")
            ELSE IF DictGet(r.val, "config").t # "str" THEN Raise("TypeError", "")
            ELSE Config(r.val, JsonDecode(DictGet(r.val, "config").v))
    IN  Job(JsonDecode(text))

get_jobs(ds, fl, dir, job_type, job_id, print_result, response) ==
    LET Run(auth, fmt, job, jobs) ==
            LET url0 == auth.state.v.url \o "/api/jobs"
                url == IF Truthy(job_id) THEN url0 \o "/" \o job_id ELSE url0 \o RouteOf(job_type)
                p1 == IF print_result
                      THEN IF Truthy(job_id) THEN << "\nFetching job with id:\t" \o job_id >>
                           ELSE << "\nFetching jobs of type:\t" \o job_type >>
                      ELSE <<>>
                sent == << Request("GET", url, auth.header, PyNone, <<>>, PyNone) >>
                p2 == IF print_result THEN p1 \o << "\nJob(s) fetched successfully: \n" >> ELSE p1
                p3 == IF print_result THEN p2 \o << fmt.val, "\n" >> ELSE p2
            IN  IF auth.outcome.kind = "raise" THEN Result(ds, fl, <<>>, <<>>, <<>>, auth.outcome)
                ELSE IF ~(Truthy(job_id) \/ Truthy(job_type))
                THEN Result(ds, fl, <<>>, <<>>, <<>>, Raise("ValueError", "Please specify either a job id or a job type"))
                ELSE IF Truthy(job_id) /\ Truthy(job_type)
                THEN Result(ds, fl, <<>>, <<>>, <<>>, Raise("ValueError", "Please specify either a job id or a job type, not both"))
                ELSE IF ~Truthy(job_id) /\ ~IsRouteKey(job_type)
                THEN Result(ds, fl, <<>>, <<>>, <<>>, Raise("ValueError", "Invalid job type: " \o job_type \o ". Valid types are: " \o StrJoin(", ", RouteKeys)))
                ELSE IF response.status_code # 200
                THEN Result(ds, fl, sent, p1, <<>>, Raise("RuntimeError", "Fetching jobs failed with response status: " \o IntStr(response.status_code) \o ". Error: " \o response.text))
                ELSE IF print_result /\ ~fmt.ok THEN Result(ds, fl, sent, p2, <<>>, DecodeError)
                ELSE IF Truthy(job_id) THEN Result(ds, fl, sent, p3, <<>>, job)
                ELSE IF ~jobs.ok THEN Result(ds, fl, sent, p3, <<>>, DecodeError)
                ELSE Result(ds, fl, sent, p3, <<>>, Return(jobs.val))
    IN  Run(authenticate(fl, dir), JsonFormat(response.text), DecodeJob(response.text), DecodeJobList(response.text))

RECURSIVE LastSlash(_, _)
LastSlash(s, i) == IF i = 0 \/ Ch(s, i) = "/" THEN i ELSE LastSlash(s, i - 1)

\* os.path.basename(path) and Path(path).name
Basename(path) == SubSeq(path, LastSlash(path, Len(path)) + 1, Len(path))

\* the multipart part built for a local file: ("file", (name, handle, type))
FilePart(fl, path) == << "file", << Basename(path), fl[path], "application/octet-stream" >> >>

\* the first path of the list that cannot be opened, or 0
FirstMissing(fl, files) ==
    IF \A i \in 1..Len(files) : FileExists(fl, files[i]) THEN 0
    ELSE CHOOSE i \in 1..Len(files) : ~FileExists(fl, files[i]) /\ \A j \in 1..(i - 1) : FileExists(fl, files[j])

FileNotFound(path) == Raise("FileNotFoundError", "[Errno 2] No such file or directory: '" \o path \o "'")

\* reading an attribute the argparse.Namespace does not have
HasAttr(args, name) == name \in DOMAIN args

NoAttribute(name) == Raise("AttributeError", "'Namespace' object has no attribute '" \o name \o "'")

\* args is the Namespace of the command: dir, files, assembly and whatever
\* else the caller put into it
create_job(ds, fl, args, print_result, response) ==
    LET Run(auth, dir, files, job, fmt, body) ==
            LET url == auth.state.v.url \o "/api/jobs/upload/"
                payload == PyDict(<< <<"job", PyStr(job)>> >>)
                missing == FirstMissing(fl, files)
                parts == [i \in 1..Len(files) |-> FilePart(fl, files[i])]
                p1 == IF print_result
                      THEN << "\nCreating jobs for files: " \o StrJoin(",", [i \in 1..Len(files) |-> Basename(files[i])]) \o "\n" >>
                      ELSE <<>>
                sent == << Request("POST", url, auth.header, payload, parts, PyNone) >>
                p2 == IF print_result THEN p1 \o << "\nJob creation successful:\n" >> ELSE p1
                p3 == IF print_result THEN p2 \o << fmt.val, "\n" >> ELSE p2
            IN  IF auth.outcome.kind = "raise" THEN Result(ds, fl, <<>>, <<>>, <<>>, auth.outcome)
                ELSE IF ~HasAttr(args, "index") THEN Result(ds, fl, <<>>, <<>>, <<>>, NoAttribute("index"))
                ELSE IF missing # 0 THEN Result(ds, fl, <<>>, <<>>, <<>>, FileNotFound(files[missing]))
                ELSE IF response.status_code # 200
                THEN Result(ds, fl, sent, p1, <<>>, Raise("RuntimeError", "Job creation failed with response status: " \o IntStr(response.status_code) \o ".                Error: \n" \o response.text \o "\n"))
                ELSE IF print_result /\ ~fmt.ok THEN Result(ds, fl, sent, p2, <<>>, DecodeError)
                ELSE IF ~body.ok THEN Result(ds, fl, sent, p3, <<>>, Raise("JSONDecodeError", ""))
                ELSE Result(ds, fl, sent, p3, <<>>, Return(body.val))
    IN  Run(authenticate(fl, args.dir), args.dir, args.files,
            IF HasAttr(args, "index")
            THEN JsonEncode(PyDict(<< <<"assembly", PyStr(args.assembly)>>, <<"options", PyDict(<< <<"index", PyBool(args.index)>> >>)>> >>))
            ELSE "",
            JsonFormat(response.text), JsonDecode(response.text))

\* a get_user that decodes the body without looking at the status
get_user_unchecked(ds, fl, dir, print_result, response) ==
    LET Run(auth, user_profile) ==
            LET sent == << Request("GET", auth.state.v.url \o "/api/user/me", auth.header, PyNone, <<>>, PyNone) >>
            IN  IF auth.outcome.kind = "raise" THEN Result(ds, fl, <<>>, <<>>, <<>>, auth.outcome)
                ELSE IF ~user_profile.ok THEN Result(ds, fl, sent, <<>>, <<>>, DecodeError)
                ELSE Result(ds, fl, sent, <<>>, <<>>, Return(user_profile.val))
    IN  Run(authenticate(fl, dir), DecodeUserProfile(response.text))

get_user(ds, fl, dir, print_result, response) ==
    LET Run(auth, user_profile, fmt) ==
            LET p1 == IF print_result THEN << "\n\nFetching user profile\n" >> ELSE <<>>
                sent == << Request("GET", auth.state.v.url \o "/api/user/me", auth.header, PyNone, <<>>, PyNone) >>
                p2 == IF print_result
                      THEN p1 \o << "\nFetched Profile for email " \o auth.state.v.email \o "\n", fmt.val, "\n" >>
                      ELSE p1
            IN  IF auth.outcome.kind = "raise" THEN Result(ds, fl, <<>>, p1, <<>>, auth.outcome)
                ELSE IF response.status_code # 200
                THEN Result(ds, fl, sent, p1, <<>>, Raise("RuntimeError", "Fetching profile failed with response status: " \o IntStr(response.status_code) \o ".                Error: \n" \o response.text \o "\n"))
                ELSE IF ~user_profile.ok THEN Result(ds, fl, sent, p1, <<>>, DecodeError)
                ELSE Result(ds, fl, sent, p2, <<>>, Return(user_profile.val))
    IN  Run(authenticate(fl, dir), DecodeUserProfile(response.text), JsonFormat(response.text))

\* str(e) of the RuntimeError that query raises inside its try block
QueryFailed(response) == "Query failed with status: " \o IntStr(response.status_code) \o ". Error: \n" \o response.text \o "\n"

query(ds, fl, dir, job_id, query_string, size, from_, response) ==
    LET Run(auth, query_results) ==
            LET query_payload == PyDict(<< <<"from", PyInt(from_)>>, <<"query", PyDict(<< <<"bool", PyDict(<< <<"must", PyDict(<< <<"query_string", PyDict(<< <<"default_operator", PyStr("AND")>>, <<"query", PyStr(query_string)>>, <<"lenient", PyBool(TRUE)>>, <<"phrase_slop", PyInt(5)>>, <<"tie_breaker", PyFloat("0.3")>> >>)>> >>)>> >>)>> >>)>>, <<"size", PyInt(size)>> >>)
                sent == << Request("POST", auth.state.v.url \o "/api/jobs/" \o job_id \o "/search", auth.header, PyNone, <<>>, PyDict(<< <<"id", PyStr(job_id)>>, <<"searchBody", query_payload>> >>)) >>
            IN  IF auth.outcome.kind = "raise" THEN Result(ds, fl, <<>>, <<>>, <<>>, auth.outcome)
                ELSE IF response.status_code # 200
                THEN Result(ds, fl, sent, <<>>, << "Query failed: " \o QueryFailed(response) \o "\n" >>, Return(PyNone))
                ELSE IF ~query_results.ok
                THEN Result(ds, fl, sent, <<>>, << "Query failed: " \o "\n" >>, Return(PyNone))
                ELSE Result(ds, fl, sent, << "\nQuery Results:", JsonIndent(query_results.val, 0) >>, <<>>, Return(PyNone))
    IN  Run(authenticate(fl, dir), JsonDecode(response.text))

(***************************************************************************)
(* Proteomics client (api/proteomics.py)                                   *)
(***************************************************************************)
UPLOAD_PROTEIN_ENDPOINT == "/api/jobs/proteomics/"
GET_ANNOTATION == "/api/jobs/:id"
HTTP_STATUS_OK == 200

\* DatasetTypes: member name and value
DatasetTypes == << <<"fragpipe_TMT", "fragpipe-TMT">>, <<"somascan", "somascan">> >>

DatasetTypeValue(member) == DatasetTypes[CHOOSE i \in 1..Len(DatasetTypes) : DatasetTypes[i][1] = member][2]

RECURSIVE StrReplaceFrom(_, _, _, _)
StrReplaceFrom(s, i, old, new) ==
    IF i > Len(s) THEN ""
    ELSE IF StartsWithAt(s, i, old) THEN new \o StrReplaceFrom(s, i + Len(old), old, new)
    ELSE Ch(s, i) \o StrReplaceFrom(s, i + 1, old, new)

\* s.replace(old, new) for a non-empty old
StrReplace(s, old, new) == StrReplaceFrom(s, 1, old, new)

RECURSIVE LineEnd(_, _)
LineEnd(s, i) == IF i > Len(s) THEN Len(s) ELSE IF Ch(s, i) = "\n" THEN i ELSE LineEnd(s, i + 1)

\* file.readline() on a freshly opened file
ReadLine(text) == SubSeq(text, 1, LineEnd(text, 1))

abundance_required_headers == << "Index", "NumberPSM", "ProteinID", "MaxPepProb", "ReferenceIntensity" >>

\* any(...) where the code has all(...): one required header is enough
AnyHeaderPresent(first_line) == \E i \in 1..Len(abundance_required_headers) : StrContains(first_line, StrLower(abundance_required_headers[i]))

\* all(header.lower() in first_line for header in abundance_required_headers)
HeadersPresent(first_line) == \A i \in 1..Len(abundance_required_headers) : StrContains(first_line, StrLower(abundance_required_headers[i]))

\* a check that lets every answer to the annotation GET pass
AnnotationFoundAlways(annotation_response) == TRUE

\* the negation of annotation_response.status_code != HTTP_STATUS_OK
AnnotationFound(annotation_response) == annotation_response.status_code = HTTP_STATUS_OK

upload_proteomics_dataset(ds, fl, protein_abundance_file, experiment_annotation_file, annotation_job_id, proteomics_dataset_type, user_dir, print_result, get_response, post_response, patch1_response, patch2_response) ==
    LET Run(headers_present, auth, annotation_path, job, proteomics_response_data, response_dump) ==
            LET url == auth.state.v.url \o UPLOAD_PROTEIN_ENDPOINT
                annotation_url == auth.state.v.url \o annotation_path
                get_request == Request("GET", annotation_url, auth.header, PyNone, <<>>, PyNone)
                p1 == << "The annotation with ID {annotation_job_id} does not exist or you do not have permissions to access this annotation." >>
                files == IF Truthy(experiment_annotation_file)
                         THEN << FilePart(fl, protein_abundance_file), FilePart(fl, experiment_annotation_file) >>
                         ELSE << FilePart(fl, protein_abundance_file) >>
                post_request == Request("POST", url, auth.header, PyDict(<< <<"job", PyStr(job)>> >>), files, PyNone)
                p2 == << "\nProteomics Upload response: " \o response_dump >>
                proteomics_job_id == DictGetOrNone(proteomics_response_data.val, "_id")
                patch1_request == Request("PATCH", annotation_url, auth.header, PyNone, <<>>, PyDict(<< <<"proteomicsID", proteomics_job_id>> >>))
                p3 == IF patch1_response.status_code # HTTP_STATUS_OK
                      THEN p2 \o << "Failed to update annotation job. Status code: {update_annotation_response.status_code}" >>
                      ELSE p2
                update_proteomics_url == auth.state.v.url \o UPLOAD_PROTEIN_ENDPOINT \o proteomics_job_id.v
                patch2_request == Request("PATCH", update_proteomics_url, auth.header, PyNone, <<>>, PyDict(<< <<"annotationID", PyStr(annotation_job_id)>> >>))
                p4 == IF patch2_response.status_code # HTTP_STATUS_OK
                      THEN p3 \o << "Failed to update proteomics job. Status code: {update_proteomics_response.status_code}" >>
                      ELSE p3
                final_response == PyDict(<< <<"annotationID", PyOptStr(annotation_job_id)>>, <<"proteomicsID", proteomics_job_id>> >>)
                sent2 == << get_request, post_request >>
                sent3 == << get_request, post_request, patch1_request >>
                sent4 == << get_request, post_request, patch1_request, patch2_request >>
            IN  IF ~FileExists(fl, protein_abundance_file)
                THEN Result(ds, fl, <<>>, <<>>, <<>>, FileNotFound(protein_abundance_file))
                ELSE IF ~headers_present
                THEN Result(ds, fl, <<>>, << "Error: The protein abundance file does not contain the required headers." >>, <<>>, Return(PyDict(<<>>)))
                ELSE IF auth.outcome.kind = "raise" THEN Result(ds, fl, <<>>, <<>>, <<>>, auth.outcome)
                ELSE IF ~Truthy(annotation_job_id)
                THEN Result(ds, fl, <<>>, <<>>, <<>>, Raise("UnboundLocalError", "annotation_response"))
                ELSE IF ~AnnotationFound(get_response)
                THEN Result(ds, fl, << get_request >>, p1, <<>>, Return(PyDict(<<>>)))
                ELSE IF Truthy(experiment_annotation_file) /\ ~FileExists(fl, experiment_annotation_file)
                THEN Result(ds, fl, << get_request >>, <<>>, <<>>, FileNotFound(experiment_annotation_file))
                ELSE IF post_response.status_code # HTTP_STATUS_OK
                THEN Result(ds, fl, sent2, <<>>, <<>>, Raise("UnboundLocalError", "proteomics_job_id"))
                ELSE IF ~proteomics_response_data.ok
                THEN Result(ds, fl, sent2, <<>>, <<>>, Raise("JSONDecodeError", ""))
                ELSE IF proteomics_response_data.val.t # "dict"
                THEN Result(ds, fl, sent2, p2, <<>>, Raise("AttributeError", "get"))
                ELSE IF proteomics_job_id.t # "str"
                THEN Result(ds, fl, sent3, p3, <<>>, Raise("TypeError", "can only concatenate str to str"))
                ELSE IF print_result
                THEN Result(ds, fl, sent4, p4 \o << "\nLink established successfully.\n", JsonIndent(final_response, 0) >>, <<>>, Return(final_response))
                ELSE Result(ds, fl, sent4, p4, <<>>, Raise("Exception", "Upload failed with status code " \o IntStr(post_response.status_code) \o ": " \o post_response.text))
    IN  Run(HeadersPresent(StrLower(StrStrip(ReadLine(fl[protein_abundance_file])))),
            authenticate(fl, user_dir),
            StrReplace(GET_ANNOTATION, ":id", annotation_job_id),
            JsonDumps(PyDict(<< <<"protein_abundance_file", PyStr(Basename(protein_abundance_file))>>, <<"proteomics_dataset_type", PyStr(DatasetTypeValue(proteomics_dataset_type))>>, <<"assembly", PyStr("N/A")>> >>)),
            JsonDecode(post_response.text),
            JsonIndent(JsonDecode(post_response.text).val, 0))

(***************************************************************************)
(* CLI frontend (cli/cli.py main): the subcommand parsers put the handler  *)
(* into the Namespace as func, and main calls args.func(args).             *)
(***************************************************************************)
RECURSIVE QuotedNamesFrom(_, _)
QuotedNamesFrom(names, i) ==
    IF i > Len(names) THEN ""
    ELSE IF i = Len(names) THEN "'" \o names[i] \o "'"
    ELSE IF Len(names) = 2 THEN "'" \o names[i] \o "' and " \o QuotedNamesFrom(names, i + 1)
    ELSE IF i = Len(names) - 1 THEN "'" \o names[i] \o "', and " \o QuotedNamesFrom(names, i + 1)
    ELSE "'" \o names[i] \o "', " \o QuotedNamesFrom(names, i + 1)

\* the TypeError of a call that leaves required parameters without a value
MissingArguments(fname, names) ==
    Raise("TypeError", fname \o "() missing " \o IntStr(Len(names)) \o " required positional argument" \o (IF Len(names) = 1 THEN "" ELSE "s") \o ": " \o QuotedNamesFrom(names, 1))

\* the TypeError of a call that names a parameter the function does not have
UnexpectedKeyword(fname, name) == Raise("TypeError", fname \o "() got an unexpected keyword argument '" \o name \o "'")

InSeq(x, s) == \E i \in 1..Len(s) : s[i] = x

\* Python binding the arguments of a call to the parameters of a def: the
\* first nrequired of params have no default, npos arguments are positional
\* and keywords are the names of the keyword arguments, in call order
BindCall(fname, params, nrequired, npos, keywords) ==
    LET IsUnknown(k) == ~InSeq(k, params)
        unknown == SelectSeq(keywords, IsUnknown)
        IsMissing(p) == ~InSeq(p, keywords)
        missing == SelectSeq(SubSeq(params, npos + 1, nrequired), IsMissing)
    IN  IF unknown # <<>> THEN UnexpectedKeyword(fname, unknown[1])
        ELSE IF missing # <<>> THEN MissingArguments(fname, missing)
        ELSE NoOutcome

signup_params == << "email", "password", "name", "host", "port", "bystro_credentials_dir", "print_result" >>
login_params == << "email", "password", "host", "port", "bystro_credentials_dir", "print_result" >>
upload_proteomics_dataset_params == << "protein_abundance_file", "experiment_annotation_file", "annotation_job_id", "proteomics_dataset_type", "user_dir", "print_result" >>

\* DatasetTypes[name]: the lookup of an enum member by its name
IsDatasetTypeName(name) == \E i \in 1..Len(DatasetTypes) : DatasetTypes[i][1] = name

_handle_proteomics_upload(ds, fl, args, answers) ==
    LET Run(auth, bound) ==
            IF auth.outcome.kind = "raise" THEN Result(ds, fl, <<>>, <<>>, <<>>, auth.outcome)
            ELSE IF ~IsDatasetTypeName(args.proteomics_dataset_type)
            THEN Result(ds, fl, <<>>, <<>>, <<>>, Raise("KeyError", "'" \o args.proteomics_dataset_type \o "'"))
            ELSE IF bound.kind = "raise" THEN Result(ds, fl, <<>>, <<>>, <<>>, bound)
            ELSE upload_proteomics_dataset(ds, fl, args.protein_abundance_file, args.experiment_annotation_file, args.annotation_job_id, args.proteomics_dataset_type, DEFAULT_DIR, TRUE, answers[1], answers[2], answers[3], answers[4])
    IN  Run(authenticate(fl, args.dir),
            BindCall("upload_proteomics_dataset", upload_proteomics_dataset_params, 1, 0,
                     << "protein_abundance_file", "experiment_annotation_file", "annotation_job_id", "proteomics_dataset_type", "url", "auth_header", "print_result" >>))

\* login(args) and signup(args): the Namespace is the only argument
login_dispatched(ds, fl, args, answers) ==
    LET Run(bound) ==
            IF bound.kind = "raise" THEN Result(ds, fl, <<>>, <<>>, <<>>, bound)
            ELSE login(ds, fl, args, None, None, None, DEFAULT_DIR, TRUE, answers[1])
    IN  Run(BindCall("login", login_params, 4, 1, <<>>))

signup_dispatched(ds, fl, args, answers) ==
    LET Run(bound) ==
            IF bound.kind = "raise" THEN Result(ds, fl, <<>>, <<>>, <<>>, bound)
            ELSE signup(ds, fl, args, None, None, None, None, DEFAULT_DIR, TRUE, answers[1])
    IN  Run(BindCall("signup", signup_params, 5, 1, <<>>))

\* args.func(args)
Dispatch(ds, fl, args, answers) ==
    CASE args.func = "login" -> login_dispatched(ds, fl, args, answers)
      [] args.func = "signup" -> signup_dispatched(ds, fl, args, answers)
      [] args.func = "get_user" -> get_user(ds, fl, args.dir, TRUE, answers[1])
      [] args.func = "create_job" -> create_job(ds, fl, args, TRUE, answers[1])
      [] args.func = "get_jobs" -> get_jobs(ds, fl, args.dir, args.type, args.id, TRUE, answers[1])
      [] args.func = "query" -> query(ds, fl, args.dir, args.job_id, args.query, args.size, args.from_, answers[1])
      [] args.func = "_handle_proteomics_upload" -> _handle_proteomics_upload(ds, fl, args, answers)

HelpText == "usage: bystro-api [-h] {login,signup,get-user,create-job,get-jobs,query,upload-proteomics} ..."

\* a main without the try/except around the handler
main_uncaught(ds, fl, args, answers) ==
    IF ~HasAttr(args, "func") THEN Result(ds, fl, <<>>, << HelpText >>, <<>>, Return(PyNone))
    ELSE Dispatch(ds, fl, args, answers)

main(ds, fl, args, answers) ==
    LET Caught(r) ==
            IF r.outcome.kind = "raise"
            THEN Result(r.ds, r.fl, r.sent, r.out \o << "\nSomething went wrong:\t" \o r.outcome.msg \o "\n" >>, r.err, Return(PyNone))
            ELSE Result(r.ds, r.fl, r.sent, r.out, r.err, Return(PyNone))
    IN  IF ~HasAttr(args, "func") THEN Result(ds, fl, <<>>, << HelpText >>, <<>>, Return(PyNone))
        ELSE Caught(Dispatch(ds, fl, args, answers))

(***************************************************************************)
(* SDK variants (api/annotation.py): the same operations with the          *)
(* arguments as parameters; they call authenticate() without an argument.  *)
(***************************************************************************)
authenticate_params == << "bystro_credentials_dir" >>

annotation_get_jobs(ds, fl, job_type, job_id, print_result, response) ==
    LET Run(bound, auth, fmt, job, jobs) ==
            LET url0 == auth.state.v.url \o "/api/jobs"
                url == IF Truthy(job_id) THEN url0 \o "/" \o job_id ELSE url0 \o RouteOf(job_type)
                p1 == IF print_result
                      THEN IF Truthy(job_id) THEN << "\nFetching job with id:\t" \o job_id >>
                           ELSE << "\nFetching jobs of type:\t" \o job_type >>
                      ELSE <<>>
                sent == << Request("GET", url, auth.header, PyNone, <<>>, PyNone) >>
                p2 == IF print_result THEN p1 \o << "\nJob(s) fetched successfully: \n" >> ELSE p1
                p3 == IF print_result THEN p2 \o << fmt.val, "\n" >> ELSE p2
            IN  IF bound.kind = "raise" THEN Result(ds, fl, <<>>, <<>>, <<>>, bound)
                ELSE IF auth.outcome.kind = "raise" THEN Result(ds, fl, <<>>, <<>>, <<>>, auth.outcome)
                ELSE IF ~(Truthy(job_id) \/ Truthy(job_type))
                THEN Result(ds, fl, <<>>, <<>>, <<>>, Raise("ValueError", "Please specify either a job id or a job type"))
                ELSE IF Truthy(job_id) /\ Truthy(job_type)
                THEN Result(ds, fl, <<>>, <<>>, <<>>, Raise("ValueError", "Please specify either a job id or a job type, not both"))
                ELSE IF ~Truthy(job_id) /\ ~IsRouteKey(job_type)
                THEN Result(ds, fl, <<>>, <<>>, <<>>, Raise("ValueError", "Invalid job type: " \o job_type \o ". Valid types are: " \o StrJoin(", ", RouteKeys)))
                ELSE IF response.status_code # 200
                THEN Result(ds, fl, sent, p1, <<>>, Raise("RuntimeError", "Fetching jobs failed with response status: " \o IntStr(response.status_code) \o ". Error: " \o response.text))
                ELSE IF print_result /\ ~fmt.ok THEN Result(ds, fl, sent, p2, <<>>, DecodeError)
                ELSE IF Truthy(job_id) THEN Result(ds, fl, sent, p3, <<>>, job)
                ELSE IF ~jobs.ok THEN Result(ds, fl, sent, p3, <<>>, DecodeError)
                ELSE Result(ds, fl, sent, p3, <<>>, Return(jobs.val))
    IN  Run(BindCall("authenticate", authenticate_params, 1, 0, <<>>), authenticate(fl, DEFAULT_DIR), JsonFormat(response.text), DecodeJob(response.text), DecodeJobList(response.text))

\* the except clause of query uses sys, which api/annotation.py does not import
SysNotDefined == Raise("NameError", "name 'sys' is not defined")

annotation_query(ds, fl, job_id, query_string, size, from_, response) ==
    LET Run(bound, auth, query_results) ==
            LET query_payload == PyDict(<< <<"from", PyInt(from_)>>, <<"query", PyDict(<< <<"bool", PyDict(<< <<"must", PyDict(<< <<"query_string", PyDict(<< <<"default_operator", PyStr("AND")>>, <<"query", PyStr(query_string)>>, <<"lenient", PyBool(TRUE)>>, <<"phrase_slop", PyInt(5)>>, <<"tie_breaker", PyFloat("0.3")>> >>)>> >>)>> >>)>> >>)>>, <<"size", PyInt(size)>> >>)
                sent == << Request("POST", auth.state.v.url \o "/api/jobs/" \o job_id \o "/search", auth.header, PyNone, <<>>, PyDict(<< <<"id", PyStr(job_id)>>, <<"searchBody", query_payload>> >>)) >>
            IN  IF bound.kind = "raise" THEN Result(ds, fl, <<>>, <<>>, <<>>, bound)
                ELSE IF auth.outcome.kind = "raise" THEN Result(ds, fl, <<>>, <<>>, <<>>, auth.outcome)
                ELSE IF response.status_code # 200 THEN Result(ds, fl, sent, <<>>, <<>>, SysNotDefined)
                ELSE IF ~query_results.ok THEN Result(ds, fl, sent, <<>>, <<>>, SysNotDefined)
                ELSE Result(ds, fl, sent, << "\nQuery Results:", JsonIndent(query_results.val, 0) >>, <<>>, Return(PyNone))
    IN  Run(BindCall("authenticate", authenticate_params, 1, 0, <<>>), authenticate(fl, DEFAULT_DIR), JsonDecode(response.text))

(***************************************************************************)
(* The inputs of the model                                                 *)
(***************************************************************************)
NumTokens == 2
NumJobIds == 1
NumWriters == 2

Dirs == {"/home/u/.bystro", "/tmp/creds"}
Emails == {"ann@x.org"}
Passwords == {"pw"}
Names == {"Ann"}
Hosts == {"https://bystro.test"}
Ports == {443, 8080}
Tokens == {"tok" \o IntStr(i) : i \in 1..NumTokens}
JobIds == {"job" \o IntStr(i) : i \in 1..NumJobIds}

\* the values handed to save_state directly; one has characters that JSON escapes
SavedAuths == {CachedAuth("blah", "blah", "http://localhost"), CachedAuth("q\"t@x.org", "a\\b\nc", "http://localhost:8080")}

ErrorAnswers == {Answer(201, "created"), Answer(404, "error"), Answer(500, "server error")}

TokenBody(token) == "{\"accessToken\":\"" \o token \o "\"}"

LoginAnswers == {Answer(200, TokenBody(t)) : t \in Tokens} \cup {Answer(200, "{}"), Answer(201, TokenBody("tok1"))} \cup ErrorAnswers

JobListBody == "[{\"_id\":\"job1\",\"name\":\"trio\",\"createdAt\":\"2023-09-06T05:45:01.446Z\"}]"
JobBody == "{\"_id\":\"job1\",\"assembly\":\"hg38\",\"config\":\"{\\\"database_dir\\\":\\\"hidden\\\"}\"}"
UserBody == "{\"_id\":\"u1\",\"options\":{\"autoUploadToS3\":false},\"name\":\"Ann\",\"email\":\"ann@x.org\",\"accounts\":[\"bystro\"],\"role\":\"user\",\"lastLogin\":\"2023-09-06T05:45:01.446Z\"}"

GetJobsAnswers == {Answer(200, JobListBody), Answer(200, JobBody), Answer(200, "oops")} \cup ErrorAnswers
CreateJobAnswers == {Answer(200, "{\"success\": true}"), Answer(200, "oops")} \cup ErrorAnswers
GetUserAnswers == {Answer(200, UserBody), Answer(200, "{}")} \cup ErrorAnswers
QueryAnswers == {Answer(200, "{\"hits\":[]}"), Answer(200, "oops")} \cup ErrorAnswers
AnnotationAnswers == {Answer(200, JobBody), Answer(404, "error")}
UploadAnswers == {Answer(200, "{\"_id\":\"prot1\"}"), Answer(200, "{\"success\": true}"), Answer(500, "server error")}
\* the answers to the two PATCH requests
PatchAnswers == {<< Answer(200, "{}"), Answer(200, "{}") >>, << Answer(500, "server error"), Answer(200, "{}") >>, << Answer(200, "{}"), Answer(500, "server error") >>}

JobTypes == {None, "", "dasfa", "all", "public", "shared", "incomplete", "completed", "failed"}
OptJobIds == {None, ""} \cup JobIds

\* the local files that exist before the client is first run
AbundanceFile == "/data/abundance.tsv"
LowerCaseFile == "/data/lower.tsv"
BadHeaderFile == "/data/bad.tsv"
AnnotationFile == "/data/experiment_annotation.tsv"
VcfFile == "/data/trio.vcf.gz"
MissingFile == "/data/missing.vcf"

InputFiles == (AbundanceFile :> "Index\tNumberPSM\tProteinID\tMaxPepProb\tReferenceIntensity\tS1\nP1\t2\tQ1\t0.9\t1.5\t3\n") @@ (LowerCaseFile :> "index\tnumberpsm\tproteinid\tmaxpepprob\treferenceintensity\n") @@ (BadHeaderFile :> "Index\tNumberPSM\tProteinID\n") @@ (AnnotationFile :> "sample\tcondition\n") @@ (VcfFile :> "##fileformat=VCFv4.2\n")

\* the Namespace of a command line without a subcommand
EmptyNamespace == [a \in {} |-> None]

\* the Namespaces parse_args builds for the subcommands of main; an option
\* that was not given is None
MainArgs ==
    {EmptyNamespace}
    \cup { [func |-> "login", host |-> host, port |-> 443, email |-> email, password |-> password, dir |-> d] :
             host \in Hosts, email \in Emails, password \in Passwords, d \in Dirs }
    \cup { [func |-> "signup", email |-> email, password |-> password, name |-> name, host |-> host, port |-> 8080, dir |-> DEFAULT_DIR] :
             email \in Emails, password \in Passwords, name \in Names, host \in Hosts }
    \cup { [func |-> "get_user", profile |-> TRUE, dir |-> d] : d \in Dirs }
    \cup { [func |-> "create_job", files |-> << VcfFile >>, assembly |-> "hg38", create_index |-> TRUE, dir |-> DEFAULT_DIR] }
    \cup { [func |-> "get_jobs", id |-> j[1], type |-> j[2], dir |-> DEFAULT_DIR] :
             j \in {<< None, None >>, << None, "completed" >>, << "job1", None >>} }
    \cup { [func |-> "query", dir |-> DEFAULT_DIR, query |-> "cadd: >= 20", size |-> 10, from_ |-> 0, job_id |-> "job1"] }
    \cup { [func |-> "_handle_proteomics_upload", protein_abundance_file |-> AbundanceFile, experiment_annotation_file |-> None, annotation_job_id |-> "job1", proteomics_dataset_type |-> t, dir |-> d] :
             t \in {"fragpipe_TMT", "fragpipe-TMT", "somascan"}, d \in Dirs }

\* what the server answers to the requests of a command
MainResponses == {Answer(200, UserBody), Answer(200, JobListBody), Answer(200, JobBody), Answer(200, TokenBody("tok1")), Answer(404, "error")}

(***************************************************************************)
(* State                                                                   *)
(***************************************************************************)
VARIABLES ds, fl, call, sent, out, err, outcome, lastSaved, writers

vars == << ds, fl, call, sent, out, err, outcome, lastSaved, writers >>

IdleCall == [op |-> "idle", args |-> [dir |-> ""], answers |-> <<>>]

NeverSaved == [by |-> "none", data |-> PyNone]

\* the processes that run save_state at the same time as one another
Procs == 1..NumWriters

\* a process that is not inside save_state
NoWriter == [pc |-> "none", data |-> PyNone, dir |-> "", print_result |-> FALSE]

Init ==
    /\ ds = {"/data"}
    /\ fl = InputFiles
    /\ call = IdleCall
    /\ sent = <<>>
    /\ out = <<>>
    /\ err = <<>>
    /\ outcome = NoOutcome
    /\ lastSaved = [d \in Dirs |-> NeverSaved]
    /\ writers = [p \in Procs |-> NoWriter]

\* the effects of a finished call become the state
Finish(r, op, args, answers) ==
    /\ ds' = r.ds
    /\ fl' = r.fl
    /\ sent' = r.sent
    /\ out' = r.out
    /\ err' = r.err
    /\ outcome' = r.outcome
    /\ call' = [op |-> op, args |-> args, answers |-> SubSeq(answers, 1, Len(r.sent))]
    /\ UNCHANGED writers

\* login and signup: when the call returns, its value is what the directory holds
FinishAuth(r, op, args, answers) ==
    /\ Finish(r, op, args, answers)
    /\ lastSaved' = IF r.outcome.kind = "return" THEN [lastSaved EXCEPT ![args.dir] = [by |-> "auth", data |-> r.outcome.value]] ELSE lastSaved

Idle == call.op = "idle"

SaveState ==
    /\ Idle
    /\ \E data \in SavedAuths, d \in Dirs, print_result \in BOOLEAN :
         /\ Finish(save_state(ds, fl, data, d, print_result), "save_state", [dir |-> d, data |-> data, print_result |-> print_result], <<>>)
         /\ lastSaved' = [lastSaved EXCEPT ![d] = [by |-> "save_state", data |-> data]]

LoadState ==
    /\ Idle
    /\ \E d \in Dirs :
         /\ Finish(Result(ds, fl, <<>>, <<>>, <<>>, load_state(fl, d)), "load_state", [dir |-> d], <<>>)
         /\ UNCHANGED lastSaved

Signup ==
    /\ Idle
    /\ \E email \in Emails, password \in Passwords, name \in Names, host \in Hosts, port \in Ports, d \in Dirs, print_result \in BOOLEAN, response \in LoginAnswers :
         FinishAuth(signup(ds, fl, email, password, name, host, port, d, print_result, response), "signup", [dir |-> d, email |-> email, password |-> password, name |-> name, host |-> host, port |-> port, print_result |-> print_result], << response >>)

Login ==
    /\ Idle
    /\ \E email \in Emails, password \in Passwords, host \in Hosts, port \in Ports, d \in Dirs, print_result \in BOOLEAN, response \in LoginAnswers :
         FinishAuth(login(ds, fl, email, password, host, port, d, print_result, response), "login", [dir |-> d, email |-> email, password |-> password, host |-> host, port |-> port, print_result |-> print_result], << response >>)

GetJobs ==
    /\ Idle
    /\ \E d \in Dirs, job_type \in JobTypes, job_id \in OptJobIds, print_result \in BOOLEAN, response \in GetJobsAnswers :
         /\ Finish(get_jobs(ds, fl, d, job_type, job_id, print_result, response), "get_jobs", [dir |-> d, type |-> job_type, id |-> job_id, print_result |-> print_result], << response >>)
         /\ UNCHANGED lastSaved

\* the Namespace a caller builds by hand (it has index) and the one the
\* "create-job" parser of main builds (--create-index gives create_index)
CreateJobArgs ==
    { [dir |-> d, files |-> files, assembly |-> job[1], index |-> job[2]] :
        d \in Dirs, files \in {<< VcfFile >>, << VcfFile, AnnotationFile >>, << VcfFile, MissingFile >>}, job \in {<< "hg38", TRUE >>, << "no-such-assembly", FALSE >>} }
    \cup { [dir |-> d, files |-> << VcfFile >>, assembly |-> "hg38", create_index |-> TRUE] : d \in Dirs }

CreateJob ==
    /\ Idle
    /\ \E args \in CreateJobArgs, print_result \in BOOLEAN, response \in CreateJobAnswers :
         /\ Finish(create_job(ds, fl, args, print_result, response), "create_job", args @@ [print_result |-> print_result], << response >>)
         /\ UNCHANGED lastSaved

GetUser ==
    /\ Idle
    /\ \E d \in Dirs, print_result \in BOOLEAN, response \in GetUserAnswers :
         /\ Finish(get_user(ds, fl, d, print_result, response), "get_user", [dir |-> d, print_result |-> print_result], << response >>)
         /\ UNCHANGED lastSaved

Query ==
    /\ Idle
    /\ \E d \in Dirs, job_id \in JobIds, query_string \in {"cadd: >= 20"}, page \in {<< 10, 0 >>, << 25, 10 >>}, response \in QueryAnswers :
         /\ Finish(query(ds, fl, d, job_id, query_string, page[1], page[2], response), "query", [dir |-> d, job_id |-> job_id, query |-> query_string, size |-> page[1], from_ |-> page[2]], << response >>)
         /\ UNCHANGED lastSaved

UploadProteomics ==
    /\ Idle
    /\ \E protein_abundance_file \in {AbundanceFile, LowerCaseFile, BadHeaderFile}, dataset \in {<< None, "fragpipe_TMT" >>, << AnnotationFile, "somascan" >>}, annotation_job_id \in {None} \cup JobIds, d \in Dirs, print_result \in BOOLEAN :
         \E get_response \in AnnotationAnswers, post_response \in UploadAnswers, patch_responses \in PatchAnswers :
            /\ Finish(upload_proteomics_dataset(ds, fl, protein_abundance_file, dataset[1], annotation_job_id, dataset[2], d, print_result, get_response, post_response, patch_responses[1], patch_responses[2]), "upload_proteomics_dataset", [dir |-> d, protein_abundance_file |-> protein_abundance_file, experiment_annotation_file |-> dataset[1], annotation_job_id |-> annotation_job_id, proteomics_dataset_type |-> dataset[2], print_result |-> print_result], << get_response, post_response, patch_responses[1], patch_responses[2] >>)
            /\ UNCHANGED lastSaved

AnnotationGetJobs ==
    /\ Idle
    /\ \E job \in {<< None, None >>, << "completed", None >>, << None, "job1" >>, << "dasfa", None >>}, print_result \in BOOLEAN, response \in GetJobsAnswers :
         /\ Finish(annotation_get_jobs(ds, fl, job[1], job[2], print_result, response), "annotation.get_jobs", [type |-> job[1], id |-> job[2], print_result |-> print_result], << response >>)
         /\ UNCHANGED lastSaved

AnnotationQuery ==
    /\ Idle
    /\ \E job_id \in JobIds, query_string \in {"cadd: >= 20"}, page \in {<< 10, 0 >>, << 25, 10 >>}, response \in QueryAnswers :
         /\ Finish(annotation_query(ds, fl, job_id, query_string, page[1], page[2], response), "annotation.query", [job_id |-> job_id, query |-> query_string, size |-> page[1], from_ |-> page[2]], << response >>)
         /\ UNCHANGED lastSaved

Main ==
    /\ Idle
    /\ \E args \in MainArgs, response \in MainResponses :
         /\ Finish(main(ds, fl, args, << response, response, response, response >>), "main", args, << response, response, response, response >>)
         /\ UNCHANGED lastSaved

\* the invocation is over: its arguments, responses and result are gone and
\* only the file system remains for the next one
ProcessExit ==
    /\ ~Idle
    /\ call' = IdleCall
    /\ sent' = <<>>
    /\ out' = <<>>
    /\ err' = <<>>
    /\ outcome' = NoOutcome
    /\ UNCHANGED << ds, fl, lastSaved, writers >>

Next ==
    \/ SaveState
    \/ LoadState
    \/ Signup
    \/ Login
    \/ GetJobs
    \/ CreateJob
    \/ GetUser
    \/ Query
    \/ UploadProteomics
    \/ Main
    \/ AnnotationGetJobs
    \/ AnnotationQuery
    \/ ProcessExit

Spec == Init /\ [][Next]_vars

(***************************************************************************)
(* Concurrent save_state: processes that save to one directory at the same *)
(* time, one file operation per step (cli/auth.py 115-127). Each process   *)
(* has its own descriptor, opened with "w" (truncate, position 0); the     *)
(* buffered write reaches the file when the with block closes it.          *)
(***************************************************************************)
InitConcurrent ==
    /\ ds = {"/data"}
    /\ fl = InputFiles
    /\ call = IdleCall
    /\ sent = <<>>
    /\ out = <<>>
    /\ err = <<>>
    /\ outcome = NoOutcome
    /\ lastSaved = [d \in Dirs |-> NeverSaved]
    /\ \E d \in Dirs, print_result \in BOOLEAN :
         writers \in [Procs -> {[pc |-> "exists", data |-> a, dir |-> d, print_result |-> print_result] : a \in SavedAuths}]

\* if not os.path.exists(bystro_credentials_dir)
SaveExists(p) ==
    /\ writers[p].pc = "exists"
    /\ writers' = [writers EXCEPT ![p].pc = IF writers[p].dir \notin ds THEN "makedirs" ELSE "open"]
    /\ UNCHANGED << ds, fl, call, sent, out, err, outcome, lastSaved >>

\* os.makedirs(bystro_credentials_dir, exist_ok=True)
SaveMakeDirs(p) ==
    /\ writers[p].pc = "makedirs"
    /\ ds' = ds \cup {writers[p].dir}
    /\ writers' = [writers EXCEPT ![p].pc = "open"]
    /\ UNCHANGED << fl, call, sent, out, err, outcome, lastSaved >>

\* open(save_path, "w", encoding="utf-8")
SaveOpen(p) ==
    /\ writers[p].pc = "open"
    /\ fl' = OpenForWrite(fl, PathJoin(writers[p].dir, STATE_FILE))
    /\ writers' = [writers EXCEPT ![p].pc = "write"]
    /\ UNCHANGED << ds, call, sent, out, err, outcome, lastSaved >>

\* f.write(encoded_data) and the end of the with block
SaveWrite(p) ==
    /\ writers[p].pc = "write"
    /\ fl' = WriteAt(fl, PathJoin(writers[p].dir, STATE_FILE), 0, EncodeCachedAuth(writers[p].data))
    /\ writers' = [writers EXCEPT ![p].pc = IF writers[p].print_result THEN "print" ELSE "done"]
    /\ UNCHANGED << ds, call, sent, out, err, outcome, lastSaved >>

\* print(f"\nSaved auth credentials to {save_path}: ...")
SavePrint(p) ==
    /\ writers[p].pc = "print"
    /\ out' = Append(out, "\nSaved auth credentials to " \o PathJoin(writers[p].dir, STATE_FILE) \o ":\n" \o JsonIndent(JsonDecode(EncodeCachedAuth(writers[p].data)).val, 0))
    /\ writers' = [writers EXCEPT ![p].pc = "done"]
    /\ UNCHANGED << ds, fl, call, sent, err, outcome, lastSaved >>

NextConcurrent ==
    \E p \in Procs :
        \/ SaveExists(p)
        \/ SaveMakeDirs(p)
        \/ SaveOpen(p)
        \/ SaveWrite(p)
        \/ SavePrint(p)

SpecConcurrent == InitConcurrent /\ [][NextConcurrent]_vars

(***************************************************************************)
(* A load_state that runs while save_state calls to the same directory are *)
(* under way (cli/auth.py 89-95): the existence test and the read are two  *)
(* steps, and the read sees the file as it is at that moment.              *)
(***************************************************************************)
\* the directory may already hold credentials from an earlier run
InitReadWrite ==
    /\ call = IdleCall
    /\ sent = <<>>
    /\ out = <<>>
    /\ err = <<>>
    /\ outcome = NoOutcome
    /\ \E d \in Dirs, print_result \in BOOLEAN :
         /\ writers \in [Procs -> {[pc |-> "exists", data |-> a, dir |-> d, print_result |-> print_result] : a \in SavedAuths}]
         /\ \/ /\ ds = {"/data"}
               /\ fl = InputFiles
               /\ lastSaved = [e \in Dirs |-> NeverSaved]
            \/ \E previous \in SavedAuths :
                 /\ ds = {"/data", d}
                 /\ fl = WriteText(InputFiles, PathJoin(d, STATE_FILE), EncodeCachedAuth(previous))
                 /\ lastSaved = [e \in Dirs |-> IF e = d THEN [by |-> "save_state", data |-> previous] ELSE NeverSaved]

\* the directory the writers save to, which the reader loads from
SharedDir == writers[1].dir

\* if os.path.exists(path): ... else return None
LoadExists ==
    /\ call.op = "idle"
    /\ IF FileExists(fl, PathJoin(SharedDir, STATE_FILE))
       THEN /\ call' = [op |-> "load_state.open", args |-> [dir |-> SharedDir], answers |-> <<>>]
            /\ UNCHANGED outcome
       ELSE /\ call' = [op |-> "load_state", args |-> [dir |-> SharedDir], answers |-> <<>>]
            /\ outcome' = Return(PyNone)
    /\ UNCHANGED << ds, fl, sent, out, err, lastSaved, writers >>

\* with open(path, "r") as f: return mjson.decode(f.read(), type=CachedAuth)
LoadRead ==
    /\ call.op = "load_state.open"
    /\ call' = [call EXCEPT !.op = "load_state"]
    /\ outcome' = load_state(fl, call.args.dir)
    /\ UNCHANGED << ds, fl, sent, out, err, lastSaved, writers >>

NextReadWrite ==
    \/ NextConcurrent
    \/ LoadExists
    \/ LoadRead

SpecReadWrite == InitReadWrite /\ [][NextReadWrite]_vars

(***************************************************************************)
(* Properties                                                              *)
(***************************************************************************)
CredentialPath(d) == PathJoin(d, STATE_FILE)

\* the calls that authenticate before talking to the server
AuthenticatedOps == {"get_jobs", "create_job", "get_user", "query", "upload_proteomics_dataset"}

\* the outcome is the explicit "not logged in" error
IsNotLoggedInError(o) == o.kind = "raise" /\ o.exc = "ValueError" /\ StrContains(o.msg, "You are not logged in")

\* an argument counts as given when it is neither None nor empty
Given(x) == x \notin {None, ""}

\* the first line of the text names every required column, in any letter case
HasRequiredHeaders(text) == \A h \in {"index", "numberpsm", "proteinid", "maxpepprob", "referenceintensity"} : StrContains(StrLower(ReadLine(text)), h)

\* C1: credential round trip. A load_state of a directory returns the
\* CachedAuth (same email, access_token and url) that the last save_state
\* call to that directory was given.
C1_RoundTrip ==
    (call.op = "load_state" /\ lastSaved[call.args.dir].by = "save_state")
        => outcome = Return(lastSaved[call.args.dir].data)

\* a load that returns a value whose text needed escaping, while the other
\* directory holds something else
C1_Witness ==
    /\ call.op = "load_state"
    /\ lastSaved[call.args.dir].by = "save_state"
    /\ outcome.kind = "return"
    /\ outcome.value = CachedAuth("q\"t@x.org", "a\\b\nc", "http://localhost:8080")
    /\ \E d \in Dirs : d # call.args.dir /\ lastSaved[d].by = "save_state" /\ lastSaved[d].data # outcome.value

C3_LoginFailure ==
    [][(call.op = "idle" /\ call'.op \in {"login", "signup"} /\ call'.answers[1].status_code # 200)
        => /\ outcome'.kind = "raise"
           /\ outcome'.exc = "RuntimeError"
           /\ StrContains(outcome'.msg, "Login failed with response status: " \o IntStr(call'.answers[1].status_code) \o ". Error: ")
           /\ StrContains(outcome'.msg, call'.answers[1].text)
           /\ fl' = fl
           /\ ds' = ds]_vars

\* a failed login over a credential file an earlier login left
C3_Witness ==
    /\ call.op = "login"
    /\ call.answers[1].status_code = 500
    /\ outcome.kind = "raise"
    /\ lastSaved[call.args.dir].by = "auth"
    /\ load_state(fl, call.args.dir) = Return(lastSaved[call.args.dir].data)

\* C4: a login (POST <host>:<port>/api/user/auth/local) or signup (PUT
\* <host>:<port>/api/user) answered with 200 and a token returns
\* CachedAuth(email argument, token of the body, "<host>:<port>"), and the
\* credential file of the directory then holds that same CachedAuth.
C4_LoginSuccess ==
    \A t \in Tokens :
        (call.op \in {"login", "signup"} /\ call.answers = << Answer(200, TokenBody(t)) >>)
            => /\ outcome = Return(CachedAuth(call.args.email, t, call.args.host \o ":" \o IntStr(call.args.port)))
               /\ Len(sent) = 1
               /\ sent[1].method = (IF call.op = "login" THEN "POST" ELSE "PUT")
               /\ sent[1].url = call.args.host \o ":" \o IntStr(call.args.port) \o (IF call.op = "login" THEN "/api/user/auth/local" ELSE "/api/user")
               /\ load_state(fl, call.args.dir) = outcome

\* a signup on the second port that returned the second token
C4_Witness ==
    /\ call.op = "signup"
    /\ call.answers = << Answer(200, TokenBody("tok2")) >>
    /\ call.args.port = 8080
    /\ outcome = Return(CachedAuth("ann@x.org", "tok2", "https://bystro.test:8080"))

\* C5: after login and signup calls against a directory, some answered with
\* 200 and some not, every request of the next authenticated call carries
\* Authorization = "Bearer " + the token the most recent successful call
\* returned and goes to that call's base url; the call is not refused as not
\* logged in, and get_user does send its request.
C5_BearerOfLastLogin ==
    (call.op \in AuthenticatedOps /\ lastSaved[call.args.dir].by = "auth")
        => /\ \A i \in 1..Len(sent) :
                /\ sent[i].headers = PyDict(<< <<"Authorization", PyStr("Bearer " \o lastSaved[call.args.dir].data.v.access_token)>> >>)
                /\ StartsWithAt(sent[i].url, 1, lastSaved[call.args.dir].data.v.url \o "/api/")
           /\ ~IsNotLoggedInError(outcome)
           /\ call.op = "get_user" => Len(sent) = 1

\* a request sent with the second token to the second port while the other
\* directory holds a different login
C5_Witness ==
    /\ call.op = "get_user"
    /\ lastSaved[call.args.dir].by = "auth"
    /\ lastSaved[call.args.dir].data = CachedAuth("ann@x.org", "tok2", "https://bystro.test:8080")
    /\ Len(sent) = 1
    /\ sent[1].url = "https://bystro.test:8080/api/user/me"
    /\ \E d \in Dirs : d # call.args.dir /\ lastSaved[d].by = "auth" /\ lastSaved[d].data.v.access_token = "tok1"

\* C6: a logged-in get_jobs given neither a job id nor a job type raises
\* ValueError "Please specify either a job id or a job type"; given both it
\* raises ValueError "Please specify either a job id or a job type, not
\* both"; neither sends a request, and a call given exactly one of them is
\* not refused with either message.
C6_ExactlyOne ==
    (call.op = "get_jobs" /\ FileExists(fl, CredentialPath(call.args.dir)))
        => /\ (~Given(call.args.id) /\ ~Given(call.args.type))
                => (outcome = Raise("ValueError", "Please specify either a job id or a job type") /\ sent = <<>>)
           /\ (Given(call.args.id) /\ Given(call.args.type))
                => (outcome = Raise("ValueError", "Please specify either a job id or a job type, not both") /\ sent = <<>>)
           /\ (Given(call.args.id) # Given(call.args.type))
                => ~(outcome.kind = "raise" /\ StartsWithAt(outcome.msg, 1, "Please specify either"))

\* a call with both an id and a type, refused with the second message
C6_Witness ==
    /\ call.op = "get_jobs"
    /\ FileExists(fl, CredentialPath(call.args.dir))
    /\ call.args.id = "job1"
    /\ call.args.type = "completed"
    /\ outcome.msg = "Please specify either a job id or a job type, not both"

\* C7: a logged-in get_jobs given no job id and a job type that is none of
\* all, public, shared, incomplete, completed, failed raises ValueError
\* "Invalid job type: <type>. Valid types are: " followed by the six types,
\* and sends no request.
C7_InvalidJobType ==
    (/\ call.op = "get_jobs"
     /\ FileExists(fl, CredentialPath(call.args.dir))
     /\ ~Given(call.args.id)
     /\ Given(call.args.type)
     /\ call.args.type \notin {"all", "public", "shared", "incomplete", "completed", "failed"})
        => /\ outcome = Raise("ValueError", "Invalid job type: " \o call.args.type \o ". Valid types are: all, public, shared, incomplete, completed, failed")
           /\ sent = <<>>

\* the type "dasfa" refused
C7_Witness ==
    /\ call.op = "get_jobs"
    /\ call.args.type = "dasfa"
    /\ ~Given(call.args.id)
    /\ outcome.kind = "raise"
    /\ outcome.msg = "Invalid job type: dasfa. Valid types are: all, public, shared, incomplete, completed, failed"

\* the route each job type is documented to map to
DocumentedRoute(t) == CASE t = "all" -> "/list/all" [] t = "public" -> "/list/all/public" [] t = "shared" -> "/list/shared" [] t = "incomplete" -> "/list/incomplete" [] t = "completed" -> "/list/completed" [] t = "failed" -> "/list/failed"

\* C8: a get_jobs that sends anything sends one GET: with a job id to
\* <base url>/api/jobs/<job id>, with a job type to <base url>/api/jobs +
\* the route of the type; a logged-in call with any of the six types and no
\* id sends its request, and answered 200 with a job list returns that list
\* decoded.
C8_RequestPath ==
    /\ (call.op = "get_jobs" /\ Len(sent) > 0)
        => /\ Len(sent) = 1
           /\ sent[1].method = "GET"
           /\ sent[1].url = lastSaved[call.args.dir].data.v.url \o "/api/jobs" \o (IF Given(call.args.id) THEN "/" \o call.args.id ELSE DocumentedRoute(call.args.type))
    /\ (/\ call.op = "get_jobs"
        /\ FileExists(fl, CredentialPath(call.args.dir))
        /\ ~Given(call.args.id)
        /\ call.args.type \in {"all", "public", "shared", "incomplete", "completed", "failed"})
        => /\ Len(sent) = 1
           /\ call.answers[1] = Answer(200, JobListBody)
                => outcome = Return(PyList(<< [t |-> "JobBasicResponse", v |-> [_id |-> "job1", name |-> "trio", createdAt |-> [t |-> "datetime", v |-> "2023-09-06T05:45:01.446Z"]]] >>))

\* the public jobs listed from the second port
C8_Witness ==
    /\ call.op = "get_jobs"
    /\ call.args.type = "public"
    /\ Len(sent) = 1
    /\ sent[1].url = "https://bystro.test:8080/api/jobs/list/all/public"
    /\ outcome.kind = "return"
    /\ outcome.value.t = "list"

\* C9: a get_jobs, create_job or get_user whose request is answered with a
\* status other than 200 raises RuntimeError with a message containing the
\* status code and the response text; the call returns a value only when
\* the status is 200.
C9_Non200Raises ==
    (call.op \in {"get_jobs", "create_job", "get_user"} /\ Len(sent) = 1)
        => /\ call.answers[1].status_code # 200
                => /\ outcome.kind = "raise"
                   /\ outcome.exc = "RuntimeError"
                   /\ StrContains(outcome.msg, IntStr(call.answers[1].status_code))
                   /\ StrContains(outcome.msg, call.answers[1].text)
           /\ outcome.kind = "return" => call.answers[1].status_code = 200

\* a create_job answered 201, which is 2xx but not 200, raises
C9_Witness ==
    /\ call.op = "create_job"
    /\ Len(sent) = 1
    /\ call.answers[1] = Answer(201, "created")
    /\ outcome.kind = "raise"
    /\ outcome.exc = "RuntimeError"

\* C10 as stated: a query whose search request is answered with a non-2xx
\* status raises an error that carries the status code and the response
\* body.
C10_QueryRaises ==
    (call.op = "query" /\ Len(sent) = 1 /\ call.answers[1].status_code \notin 200..299)
        => /\ outcome.kind = "raise"
           /\ StrContains(outcome.msg, IntStr(call.answers[1].status_code))
           /\ StrContains(outcome.msg, call.answers[1].text)

\* C11: header validation gates the upload. upload_proteomics_dataset sends
\* a request only if the first line of the protein abundance file names all
\* five required headers; when one is missing it prints its error, returns
\* the empty dict without raising and sends no request, whether or not the
\* caller is logged in.
C11_HeaderGate ==
    call.op = "upload_proteomics_dataset"
        => /\ Len(sent) > 0 => HasRequiredHeaders(fl[call.args.protein_abundance_file])
           /\ ~HasRequiredHeaders(fl[call.args.protein_abundance_file])
                => /\ outcome = Return(PyDict(<<>>))
                   /\ sent = <<>>
                   /\ out = << "Error: The protein abundance file does not contain the required headers." >>

\* a logged-in upload of a file that lacks two of the headers
C11_Witness ==
    /\ call.op = "upload_proteomics_dataset"
    /\ FileExists(fl, CredentialPath(call.args.dir))
    /\ call.args.protein_abundance_file = "/data/bad.tsv"
    /\ call.args.annotation_job_id = "job1"
    /\ outcome = Return(PyDict(<<>>))
    /\ sent = <<>>

\* the upload was given a valid abundance file and an annotation job id by a
\* logged-in caller
UploadWithAnnotation ==
    /\ call.op = "upload_proteomics_dataset"
    /\ FileExists(fl, CredentialPath(call.args.dir))
    /\ HasRequiredHeaders(fl[call.args.protein_abundance_file])
    /\ Given(call.args.annotation_job_id)

\* the four requests of a linked upload, in order, for base url u, annotation
\* job a and new proteomics job p
IsLinkSequence(reqs, u, a, p) ==
    /\ Len(reqs) = 4
    /\ reqs[1].method = "GET" /\ reqs[1].url = u \o "/api/jobs/" \o a
    /\ reqs[2].method = "POST" /\ reqs[2].url = u \o "/api/jobs/proteomics/"
    /\ reqs[3].method = "PATCH" /\ reqs[3].url = u \o "/api/jobs/" \o a
    /\ reqs[3].json = PyDict(<< <<"proteomicsID", PyStr(p)>> >>)
    /\ reqs[4].method = "PATCH" /\ reqs[4].url = u \o "/api/jobs/proteomics/" \o p
    /\ reqs[4].json = PyDict(<< <<"annotationID", PyStr(a)>> >>)

\* C12 as stated: an upload with a valid header and an annotation job id
\* whose GET is answered 200 goes on to the POST, and when that is answered
\* 200 with the new job's id the requests are GET, POST, PATCH, PATCH in that
\* order, each once, and the call returns {annotationID, proteomicsID}.
C12_LinkedUpload ==
    UploadWithAnnotation
        => /\ Len(sent) >= 1
           /\ call.answers[1].status_code = 200 => Len(sent) >= 2
           /\ (Len(sent) >= 2 /\ call.answers[1].status_code = 200 /\ call.answers[2] = Answer(200, "{\"_id\":\"prot1\"}"))
                => /\ IsLinkSequence(sent, lastSaved[call.args.dir].data.v.url, call.args.annotation_job_id, "prot1")
                   /\ outcome = Return(PyDict(<< <<"annotationID", PyStr(call.args.annotation_job_id)>>, <<"proteomicsID", PyStr("prot1")>> >>))

\* the same, for a caller that asked for the result to be printed
C12_LinkedUploadPrinted ==
    (call.op = "upload_proteomics_dataset" /\ call.args.print_result) => C12_LinkedUpload

\* C13 as stated: the annotation job id is optional. A logged-in upload of a
\* valid abundance file with annotation_job_id = None sends the upload POST
\* exactly once, no GET and no PATCH, and returns without an exception.
C13_AnnotationOptional ==
    (/\ call.op = "upload_proteomics_dataset"
     /\ FileExists(fl, CredentialPath(call.args.dir))
     /\ HasRequiredHeaders(fl[call.args.protein_abundance_file])
     /\ call.args.annotation_job_id = None)
        => /\ Len(sent) = 1
           /\ sent[1].method = "POST"
           /\ outcome.kind = "return"

\* C14 as stated: when the upload POST is answered with a status other than
\* 200, upload_proteomics_dataset raises an Exception with the message
\* "Upload failed with status code <code>: <text>" and sends no PATCH.
C14_UploadFailure ==
    (/\ call.op = "upload_proteomics_dataset"
     /\ Len(sent) >= 2
     /\ sent[2].method = "POST"
     /\ call.answers[2].status_code # 200)
        => /\ outcome.kind = "raise"
           /\ outcome.msg = "Upload failed with status code " \o IntStr(call.answers[2].status_code) \o ": " \o call.answers[2].text
           /\ \A i \in 1..Len(sent) : sent[i].method # "PATCH"

\* C15: a get_jobs called with a job id and answered 200 with a job record
\* returns that record as a dict whose "config" member, a JSON string on the
\* wire, is replaced by its decoded value, every other member unchanged.
C15_JobConfigDecoded ==
    (/\ call.op = "get_jobs"
     /\ Given(call.args.id)
     /\ Len(sent) = 1
     /\ call.answers[1] = Answer(200, "{\"_id\":\"job1\",\"assembly\":\"hg38\",\"config\":\"{\\\"database_dir\\\":\\\"hidden\\\"}\"}"))
        => outcome = Return(PyDict(<< <<"_id", PyStr("job1")>>, <<"assembly", PyStr("hg38")>>, <<"config", PyDict(<< <<"database_dir", PyStr("hidden")>> >>)>> >>))

\* a single job fetched by id with its result printed
C15_Witness ==
    /\ call.op = "get_jobs"
    /\ call.args.id = "job1"
    /\ call.args.print_result
    /\ Len(sent) = 1
    /\ sent[1].url = "https://bystro.test:443/api/jobs/job1"
    /\ outcome.kind = "return"
    /\ outcome.value.t = "dict"
    /\ DictGet(outcome.value, "config") = PyDict(<< <<"database_dir", PyStr("hidden")>> >>)

\* every concurrent save_state has finished
AllSaved == \A p \in Procs : writers[p].pc = "done"

\* C16 as stated: last writer wins. When concurrent save_state calls to one
\* directory have all finished, whatever the interleaving of their file
\* operations, the credential file holds exactly the encoded CachedAuth of
\* one of them: never a mixture of the two and never empty.
C16_LastWriterWins ==
    AllSaved => \E p \in Procs : fl[PathJoin(writers[p].dir, STATE_FILE)] = EncodeCachedAuth(writers[p].data)

\* what each credentials directory holds: its credential file's text, if any
CredentialFiles(f) == [d \in Dirs |-> IF FileExists(f, CredentialPath(d)) THEN << f[CredentialPath(d)] >> ELSE <<>>]

\* C17: get_jobs, create_job, get_user, query and upload_proteomics_dataset
\* never create, modify or delete a credential file, whatever the server
\* answers; and a login or signup changes one only when it was answered 200.
C17_OnlyLoginWrites ==
    [][/\ (call.op = "idle" /\ call'.op \in AuthenticatedOps)
            => CredentialFiles(fl') = CredentialFiles(fl)
       /\ (call.op = "idle" /\ call'.op \in {"login", "signup"} /\ CredentialFiles(fl') # CredentialFiles(fl))
            => call'.answers[1].status_code = 200]_vars

\* a query that the server refused, with the caller's login still on disk
C17_Witness ==
    /\ call.op = "query"
    /\ Len(sent) = 1
    /\ call.answers[1].status_code = 500
    /\ lastSaved[call.args.dir].by = "auth"
    /\ load_state(fl, call.args.dir) = Return(lastSaved[call.args.dir].data)

\* the one request of a query: a POST to <base url>/api/jobs/<job_id>/search
\* whose body is {id, searchBody: {from, query, size}} with from_ and size
\* as given
IsQueryRequest(reqs, u, a) ==
    /\ Len(reqs) = 1
    /\ reqs[1].method = "POST"
    /\ reqs[1].url = u \o "/api/jobs/" \o a.job_id \o "/search"
    /\ [i \in 1..Len(reqs[1].json.v) |-> reqs[1].json.v[i][1]] = << "id", "searchBody" >>
    /\ DictGet(reqs[1].json, "id") = PyStr(a.job_id)
    /\ [i \in 1..Len(DictGet(reqs[1].json, "searchBody").v) |-> DictGet(reqs[1].json, "searchBody").v[i][1]] = << "from", "query", "size" >>
    /\ DictGet(DictGet(reqs[1].json, "searchBody"), "from") = PyInt(a.from_)
    /\ DictGet(DictGet(reqs[1].json, "searchBody"), "size") = PyInt(a.size)
    /\ DictGet(DictGet(DictGet(DictGet(DictGet(DictGet(reqs[1].json, "searchBody"), "query"), "bool"), "must"), "query_string"), "query") = PyStr(a.query)

\* C18 as stated: a query whose search request is answered 200 has sent one
\* POST to <base url>/api/jobs/<job_id>/search with from_ and size passed
\* through, and returns the decoded response body to its caller.
C18_QueryReturnsResults ==
    (call.op = "query" /\ Len(sent) >= 1 /\ call.answers[1] = Answer(200, "{\"hits\":[]}"))
        => /\ IsQueryRequest(sent, lastSaved[call.args.dir].data.v.url, call.args)
           /\ outcome = Return(PyDict(<< <<"hits", PyList(<<>>)>> >>))

\* the part of C18 about the request alone: every query that sends anything
\* has sent exactly that one POST
C18_QueryRequest ==
    (call.op = "query" /\ Len(sent) >= 1)
        => IsQueryRequest(sent, lastSaved[call.args.dir].data.v.url, call.args)

\* the arguments of get_jobs pass validation: exactly one of id and type is
\* given, and a type is one of the six
ValidJobArgs(a) ==
    /\ Given(a.id) # Given(a.type)
    /\ Given(a.id) \/ a.type \in {"all", "public", "shared", "incomplete", "completed", "failed"}

\* C19: get_jobs sends no request when its arguments fail validation
\* (neither id nor type, both, or an unknown type), and a logged-in call
\* whose arguments pass sends exactly one request, a GET.
C19_RequestCount ==
    call.op = "get_jobs"
        => /\ ~ValidJobArgs(call.args) => sent = <<>>
           /\ (ValidJobArgs(call.args) /\ FileExists(fl, CredentialPath(call.args.dir)))
                => (Len(sent) = 1 /\ sent[1].method = "GET")

\* a valid call whose single GET the server refused
C19_Witness ==
    /\ call.op = "get_jobs"
    /\ call.args.type = "failed"
    /\ call.args.id = ""
    /\ Len(sent) = 1
    /\ sent[1].method = "GET"
    /\ call.answers[1].status_code = 404

\* the file name a path ends in, for the paths the model uploads
DocumentedName(path) == CASE path = "/data/trio.vcf.gz" -> "trio.vcf.gz" [] path = "/data/experiment_annotation.tsv" -> "experiment_annotation.tsv"

\* the request and result C20 describes, for a Namespace that has index
IsCreateJobRequest ==
           /\ Len(sent) = 1
           /\ sent[1].method = "POST"
           /\ sent[1].url = lastSaved[call.args.dir].data.v.url \o "/api/jobs/upload/"
           /\ Len(sent[1].files) = Len(call.args.files)
           /\ \A i \in 1..Len(call.args.files) :
                sent[1].files[i] = << "file", << DocumentedName(call.args.files[i]), fl[call.args.files[i]], "application/octet-stream" >> >>
           /\ sent[1].data = PyDict(<< <<"job", PyStr("{\"assembly\":\"" \o call.args.assembly \o "\",\"options\":{\"index\":" \o (IF call.args.index THEN "true" ELSE "false") \o "}}")>> >>)
           /\ call.answers[1] = Answer(200, "{\"success\": true}")
                => outcome = Return(PyDict(<< <<"success", PyBool(TRUE)>> >>))

\* C20: a logged-in create_job whose input files all exist sends exactly one
\* POST to <base url>/api/jobs/upload/ with one multipart "file" part per
\* input path, in input order, each named with the path's basename, and a
\* "job" field that encodes {assembly as given, options: {index}}; answered
\* 200 it returns the decoded response body.
C20_CreateJob ==
    (/\ call.op = "create_job"
     /\ FileExists(fl, CredentialPath(call.args.dir))
     /\ \A i \in 1..Len(call.args.files) : FileExists(fl, call.args.files[i]))
        => HasAttr(call.args, "index") /\ IsCreateJobRequest

\* C20, for the callers that put index into the Namespace themselves: the
\* same statement holds whenever the Namespace has the attribute
C20_CreateJobRequest ==
    (/\ call.op = "create_job"
     /\ HasAttr(call.args, "index")
     /\ FileExists(fl, CredentialPath(call.args.dir))
     /\ \A i \in 1..Len(call.args.files) : FileExists(fl, call.args.files[i]))
        => IsCreateJobRequest

\* C21: when an annotation job id is given and the GET for that annotation
\* is answered with a status other than 200, upload_proteomics_dataset
\* prints a message, returns the empty dict and sends neither the upload
\* POST nor any PATCH.
C21_AnnotationRefused ==
    (/\ call.op = "upload_proteomics_dataset"
     /\ Given(call.args.annotation_job_id)
     /\ Len(sent) >= 1
     /\ sent[1].method = "GET"
     /\ call.answers[1].status_code # 200)
        => /\ Len(out) >= 1
           /\ outcome = Return(PyDict(<<>>))
           /\ \A i \in 1..Len(sent) : sent[i].method \notin {"POST", "PATCH"}

\* the server does not know the annotation job: one GET, answered 404
C21_Witness ==
    /\ call.op = "upload_proteomics_dataset"
    /\ call.args.annotation_job_id = "job1"
    /\ call.args.protein_abundance_file = "/data/abundance.tsv"
    /\ Len(sent) = 1
    /\ sent[1].method = "GET"
    /\ sent[1].url = "https://bystro.test:443/api/jobs/job1"
    /\ call.answers[1].status_code = 404
    /\ outcome = Return(PyDict(<<>>))

\* the upload returned a result that names annotationID and proteomicsID
ReturnedLink ==
    /\ outcome.kind = "return"
    /\ outcome.value.t = "dict"
    /\ \E i, j \in 1..Len(outcome.value.v) : outcome.value.v[i][1] = "annotationID" /\ outcome.value.v[j][1] = "proteomicsID"

PrintedLinkEstablished == \E i \in 1..Len(out) : StrContains(out[i], "Link established successfully")

\* C22 as stated: upload_proteomics_dataset returns a result naming both
\* annotationID and proteomicsID, and prints "Link established
\* successfully", only if both linkage PATCH requests, the one on the
\* annotation job and the one on the proteomics job, were answered 200.
C22_LinkOnlyIfPatched ==
    (call.op = "upload_proteomics_dataset" /\ (ReturnedLink \/ PrintedLinkEstablished))
        => /\ Len(sent) = 4
           /\ sent[3].method = "PATCH" /\ call.answers[3].status_code = 200
           /\ sent[4].method = "PATCH" /\ call.answers[4].status_code = 200

\* what the code does guarantee: the result is returned only after both
\* PATCH requests were sent, whatever their answers
C22_LinkOnlyAfterPatches ==
    (call.op = "upload_proteomics_dataset" /\ (ReturnedLink \/ PrintedLinkEstablished))
        => /\ Len(sent) = 4
           /\ sent[3].method = "PATCH"
           /\ sent[4].method = "PATCH"

\* two runs that differ at most in what they printed: the same requests, the
\* same directories and files afterwards, the same return value or error
SameButPrinting(a, b) == a.sent = b.sent /\ a.ds = b.ds /\ a.fl = b.fl /\ a.outcome = b.outcome

PrintOnly_save_state ==
    \A data \in SavedAuths, d \in Dirs :
        SameButPrinting(save_state(ds, fl, data, d, TRUE), save_state(ds, fl, data, d, FALSE))

PrintOnly_login ==
    \A email \in Emails, password \in Passwords, host \in Hosts, port \in Ports, d \in Dirs, response \in LoginAnswers :
        SameButPrinting(login(ds, fl, email, password, host, port, d, TRUE, response), login(ds, fl, email, password, host, port, d, FALSE, response))

PrintOnly_signup ==
    \A email \in Emails, password \in Passwords, name \in Names, host \in Hosts, port \in Ports, d \in Dirs, response \in LoginAnswers :
        SameButPrinting(signup(ds, fl, email, password, name, host, port, d, TRUE, response), signup(ds, fl, email, password, name, host, port, d, FALSE, response))

PrintOnly_get_jobs ==
    \A d \in Dirs, job_type \in JobTypes, job_id \in OptJobIds, response \in GetJobsAnswers :
        SameButPrinting(get_jobs(ds, fl, d, job_type, job_id, TRUE, response), get_jobs(ds, fl, d, job_type, job_id, FALSE, response))

PrintOnly_create_job ==
    \A args \in CreateJobArgs, response \in CreateJobAnswers :
        SameButPrinting(create_job(ds, fl, args, TRUE, response), create_job(ds, fl, args, FALSE, response))

PrintOnly_get_user ==
    \A d \in Dirs, response \in GetUserAnswers :
        SameButPrinting(get_user(ds, fl, d, TRUE, response), get_user(ds, fl, d, FALSE, response))

PrintOnly_upload_proteomics_dataset ==
    \A protein_abundance_file \in {AbundanceFile, LowerCaseFile, BadHeaderFile}, dataset \in {<< None, "fragpipe_TMT" >>, << AnnotationFile, "somascan" >>}, annotation_job_id \in {None} \cup JobIds, d \in Dirs :
        \A get_response \in AnnotationAnswers, post_response \in UploadAnswers, patch_responses \in PatchAnswers :
            SameButPrinting(upload_proteomics_dataset(ds, fl, protein_abundance_file, dataset[1], annotation_job_id, dataset[2], d, TRUE, get_response, post_response, patch_responses[1], patch_responses[2]),
                            upload_proteomics_dataset(ds, fl, protein_abundance_file, dataset[1], annotation_job_id, dataset[2], d, FALSE, get_response, post_response, patch_responses[1], patch_responses[2]))


\* C23 as stated: print_result only controls printing. From every state in
\* which an operation can start, and for every input and server answer, the
\* run with print_result=True and the run with print_result=False of
\* save_state, login, signup, get_jobs, create_job, get_user and
\* upload_proteomics_dataset send the same requests, leave the same files
\* and end with the same return value or the same error.
C23_PrintOnly ==
    Idle => /\ PrintOnly_save_state
            /\ PrintOnly_login
            /\ PrintOnly_signup
            /\ PrintOnly_get_jobs
            /\ PrintOnly_get_user
            /\ PrintOnly_create_job
            /\ PrintOnly_upload_proteomics_dataset

\* the operations for which the statement does hold
C23_PrintOnlyElsewhere ==
    Idle => /\ PrintOnly_save_state
            /\ PrintOnly_login
            /\ PrintOnly_signup
            /\ PrintOnly_get_jobs
            /\ PrintOnly_get_user

\* main dispatched the login or the signup subcommand
DispatchedLogin == call.op = "main" /\ HasAttr(call.args, "func") /\ call.args.func \in {"login", "signup"}

\* C24 as stated: dispatching the login (resp. signup) subcommand through
\* main calls login (resp. signup) with the parsed email, password, (name,)
\* host, port and credentials directory: one POST goes to the host and port
\* given, and when the server answers 200 with a token the credential file
\* of that directory holds the new token afterwards, so that the next
\* authenticated command authenticates.
C24_LoginDispatch ==
    DispatchedLogin
        => /\ Len(sent) = 1
           /\ sent[1].method = "POST"
           /\ StartsWithAt(sent[1].url, 1, call.args.host \o ":" \o IntStr(call.args.port) \o "/api/user/auth/")
           /\ \A t \in Tokens :
                call.answers[1] = Answer(200, TokenBody(t))
                    => /\ load_state(fl, call.args.dir) = Return(CachedAuth(call.args.email, t, call.args.host \o ":" \o IntStr(call.args.port)))
                       /\ authenticate(fl, call.args.dir).outcome.kind # "raise"

\* what the code does instead: the handler is called with the Namespace as
\* its only argument, which the signature of login and signup rejects, so
\* no request is sent, the credential files stay as they were and main
\* reports the TypeError
C24_LoginNeverRuns ==
    [][DispatchedLogin'
        => /\ sent' = <<>>
           /\ fl' = fl
           /\ \E i \in 1..Len(out') : StrContains(out'[i], "Something went wrong") /\ StrContains(out'[i], "required positional arguments: 'password', ")]_vars

\* main dispatched the upload-proteomics subcommand for a logged-in user
DispatchedUpload ==
    /\ call.op = "main"
    /\ HasAttr(call.args, "func")
    /\ call.args.func = "_handle_proteomics_upload"
    /\ FileExists(fl, CredentialPath(call.args.dir))

\* the value of the DatasetTypes member that a command-line value names,
\* by member name or by member value
DocumentedDatasetValue(v) == CASE v \in {"fragpipe_TMT", "fragpipe-TMT"} -> "fragpipe-TMT" [] v = "somascan" -> "somascan"

\* C25 as stated, for cli.py: every value main accepts for
\* --proteomics-dataset-type (the choices "fragpipe-TMT" and "somascan" and
\* the default "fragpipe_TMT") is resolved to a DatasetTypes member and
\* upload_proteomics_dataset is invoked with that member and the parsed file
\* and job id: the annotation GET for the job id is sent, and once it is
\* answered 200 the upload POST carries the member's value and the file.
C25_DatasetTypeResolved ==
    DispatchedUpload
        => /\ Len(sent) >= 1
           /\ sent[1].method = "GET"
           /\ sent[1].url = lastSaved[call.args.dir].data.v.url \o "/api/jobs/" \o call.args.annotation_job_id
           /\ call.answers[1].status_code = 200
                => /\ Len(sent) >= 2
                   /\ sent[2].method = "POST"
                   /\ StrContains(DictGet(sent[2].data, "job").v, "\"" \o DocumentedDatasetValue(call.args.proteomics_dataset_type) \o "\"")
                   /\ sent[2].files[1] = << "file", << "abundance.tsv", fl[call.args.protein_abundance_file], "application/octet-stream" >> >>

\* what the code does instead: the choice "fragpipe-TMT" is not a member
\* name, and the call passes url= and auth_header=, which
\* upload_proteomics_dataset does not take; no request is ever sent and main
\* reports the KeyError or the TypeError
C25_UploadNeverRuns ==
    DispatchedUpload
        => /\ sent = <<>>
           /\ out = << "\nSomething went wrong:\t"
                        \o (IF call.args.proteomics_dataset_type = "fragpipe-TMT" THEN "'fragpipe-TMT'"
                            ELSE "upload_proteomics_dataset() got an unexpected keyword argument 'url'")
                        \o "\n" >>

\* main dispatched a handler
Dispatched == call.op = "main" /\ HasAttr(call.args, "func")

\* cases in which the dispatched handler is known to raise: a command that
\* authenticates without a credential file, and a request that the server
\* answered with a status other than 200 (query reports that one itself)
HandlerRaised ==
    /\ Dispatched
    /\ \/ (call.args.func \in {"get_user", "get_jobs", "create_job", "query", "_handle_proteomics_upload"} /\ ~FileExists(fl, CredentialPath(call.args.dir)))
       \/ (call.args.func # "query" /\ Len(sent) >= 1 /\ call.answers[Len(sent)].status_code # 200)

\* C26: main never propagates an exception raised by a command handler: it
\* always returns normally, an exception of the handler is reported as
\* "Something went wrong: <error>", and without a subcommand main prints the
\* help text and calls no handler (nothing else is printed or sent).
C26_MainCatches ==
    call.op = "main"
        => /\ outcome = Return(PyNone)
           /\ HandlerRaised
                => /\ Len(out) >= 1
                   /\ StartsWithAt(out[Len(out)], 1, "\nSomething went wrong:\t")
                   /\ Len(out[Len(out)]) > Len("\nSomething went wrong:\t\n")
           /\ ~HasAttr(call.args, "func") => (out = << HelpText >> /\ sent = <<>>)

\* get-user refused by the server: the RuntimeError is reported, not raised
C26_Witness ==
    /\ Dispatched
    /\ call.args.func = "get_user"
    /\ Len(sent) = 1
    /\ call.answers[1].status_code = 404
    /\ StartsWithAt(out[Len(out)], 1, "\nSomething went wrong:\tFetching profile failed with response status: 404")
    /\ outcome = Return(PyNone)

\* the requests and the result of a CLI run r are those of the current call
SameAsCall(r) == r.sent = sent /\ r.outcome = outcome

\* C27 as stated: the SDK and CLI variants agree. For every (job_id,
\* job_type), respectively (job_id, query, size, from_), and the same stored
\* credentials and server answer, get_jobs and query of api/annotation.py
\* end as get_jobs and query of cli/cli.py do for the default credentials
\* directory: the same error, or the same single request and result.
C27_VariantsAgree ==
    /\ call.op = "annotation.get_jobs"
        => \A response \in GetJobsAnswers :
             (sent = <<>> \/ call.answers[1] = response)
                => SameAsCall(get_jobs(ds, fl, DEFAULT_DIR, call.args.type, call.args.id, call.args.print_result, response))
    /\ call.op = "annotation.query"
        => \A response \in QueryAnswers :
             (sent = <<>> \/ call.answers[1] = response)
                => SameAsCall(query(ds, fl, DEFAULT_DIR, call.args.job_id, call.args.query, call.args.size, call.args.from_, response))

\* what the code does instead: authenticate has one parameter and no default
\* for it, so the SDK variants fail before they read any credentials
C27_SdkNeverAuthenticates ==
    call.op \in {"annotation.get_jobs", "annotation.query"}
        => /\ sent = <<>>
           /\ outcome = Raise("TypeError", "authenticate() missing 1 required positional argument: 'bystro_credentials_dir'")

\* C28 as stated: a load_state that runs concurrently with save_state calls
\* to the same credentials directory returns None, the previously stored
\* CachedAuth or a newly stored CachedAuth; it never observes an empty or
\* partially written file and never fails to decode.
C28_LoadSeesWholeFile ==
    call.op = "load_state"
        => \/ outcome = Return(PyNone)
           \/ (lastSaved[call.args.dir].by = "save_state" /\ outcome = Return(lastSaved[call.args.dir].data))
           \/ \E p \in Procs : outcome = Return(writers[p].data)

\* what does hold: a load that returns a value returns one of those three;
\* the failures are decode errors on a file caught between open and close
C28_LoadReturnsStoredOrFails ==
    call.op = "load_state"
        => \/ C28_LoadSeesWholeFile
           \/ outcome = DecodeError

====
